---- MODULE Spec2Model ----
(***************************************************************************)
(* Model of the crypto market monitoring pipeline: the ingestion jobs      *)
(* (run_ingestion.py, fetch_prices.py, fetch_sentiment.py) that write raw  *)
(* JSON blobs, the staging loader (load_to_staging.py) that copies them    *)
(* from the object store into the warehouse staging tables, the creation   *)
(* of the warehouse structure (init_staging_tables.py,                     *)
(* init_dimensional_model.py), and the dimensions and facts of the star    *)
(* schema it declares.                                                     *)
(***************************************************************************)
EXTENDS Integers, Sequences, FiniteSets, Bags, TLC

VARIABLES
    bucket_prices,      \* objects listed under raw/prices/, in listing order
    bucket_sentiment,   \* objects listed under raw/sentiment/, in listing order
    stg_prices_raw,     \* bag of rows of table stg_prices_raw
    stg_sentiment_raw,  \* bag of rows of table stg_sentiment_raw
    pc,                 \* position of the staging-load process
    caller,             \* who called the running load_*_to_staging
    limit_files,        \* argument limit_files of the running call
    blobs,              \* local variable blobs of the running call
    idx,                \* number of blobs the for loop has finished
    records_loaded,     \* local variable records_loaded
    log,                \* what happened to each blob of the running call
    stg_before,         \* the call's staging table as it was when the call began
    ret,                \* value returned by the last finished load_*_to_staging
    calls,              \* number of load_*_to_staging calls begun
    env,                \* environment variables of the invocation
    prices_count,       \* run_load_to_staging: prices_count
    sentiment_count,    \* run_load_to_staging: sentiment_count
    success,            \* what run_load_to_staging returned
    exit_status,        \* exit status of the process, -1 while it has not exited
    io,                 \* object-store and warehouse requests the invocation has made
    unreachable,        \* prefixes whose listing raised in this invocation
    times,              \* per prefix and blob: how many inserts of it succeeded so far
    dim_coin,           \* rows of table dim_coin
    now,                \* the warehouse clock
    xf,                 \* per transformer invocation: its position and locals
    xf_runs,            \* number of transformer runs begun
    versions,           \* per coin natural key: the names it was loaded with, in order
    dim_timestamp,      \* rows of table dim_timestamp
    fact_price_snapshots, \* rows of table fact_price_snapshots
    fact_sentiment,     \* rows of table fact_sentiment
    granularity,        \* the configured granularity of the timestamp dimension
    xff,                \* the fact load of the transformer: its position and locals
    dataset,            \* the warehouse dataset crypto_pipeline exists
    tables,             \* schema of each table of the dataset
    ddl,                \* the last create_*_tables call: what it did
    clock,              \* the UTC wall clock: seconds and microseconds
    local_files,        \* files under data/: path to content
    object_names,       \* per prefix: names of the listed objects, in listing order
    ing,                \* the ingestion process: its position and locals
    replay,             \* a listing loaded in two orders: the order, the fate of each blob, the first result
    script              \* a run of one ingestion script by itself: its position and locals

storeVars == <<bucket_prices, bucket_sentiment>>
stgVars == <<stg_prices_raw, stg_sentiment_raw>>
\* the frame of the running load function
frameVars == <<blobs, idx, records_loaded, log, stg_before>>
\* what run_load_to_staging and __main__ keep
runVars == <<prices_count, sentiment_count, success, exit_status>>
loadVars == <<pc, caller, limit_files, frameVars, ret, calls, env, runVars, io, unreachable, times>>
\* the coin dimension and the transformer invocations
xfVars == <<dim_coin, now, xf, xf_runs, versions>>
\* the timestamp dimension, the fact tables and the fact load
factVars == <<dim_timestamp, fact_price_snapshots, fact_sentiment, granularity, xff>>
\* the structure of the warehouse
schemaVars == <<dataset, tables, ddl>>
\* the ingestion jobs and what they write besides the bucket
ingestVars == <<clock, local_files, object_names, ing>>
\* the comparison of two orders of one listing
orderVars == <<replay>>
\* a single ingestion job run as a script
jobVars == <<script>>
restVars == <<factVars, schemaVars, ingestVars, orderVars, jobVars>>
vars == <<storeVars, stgVars, loadVars, xfVars, restVars>>

----------------------------------------------------------------------------
(* Bounds of the model *)

\* most blobs under one prefix
MaxBlobs == 2
\* most load_*_to_staging calls (or run_load_to_staging invocations) in a behaviour
MaxCalls == 2

\* limit_files when the caller gives none, and the one __main__ passes
DefaultLimitFiles == 10

----------------------------------------------------------------------------
(* JSON values and Python dictionaries *)

\* JSON null, Python None, SQL NULL
NULL == "NULL"
\* a variable of the process that has no value yet
NONE == "NONE"

\* dict.get(key): the value, None when the key is absent
Get(d, key) == IF key \in DOMAIN d THEN d[key] ELSE NULL

\* dict.get(key, default)
GetDefault(d, key, default) == IF key \in DOMAIN d THEN d[key] ELSE default

\* the bag holding each element of a sequence once per occurrence
RECURSIVE SeqToBag(_)
SeqToBag(s) == IF s = <<>> THEN EmptyBag ELSE SetToBag({Head(s)}) (+) SeqToBag(Tail(s))

----------------------------------------------------------------------------
(* Raw price blobs.  A blob's text is either text json.loads rejects       *)
(* ([notjson]) or a JSON object ([dict]).  Its data is a list ([list]) or  *)
(* some other JSON value ([scalar]); a leaf of the list is an object       *)
(* ([dict]) or some other JSON value ([scalar]).                           *)

Bitcoin == [dict |-> [id |-> "bitcoin", symbol |-> "btc", name |-> "Bitcoin", current_price |-> "50000", market_cap_rank |-> "1"]]
Ethereum == [dict |-> [id |-> "ethereum", symbol |-> "eth", name |-> "Ethereum", current_price |-> "3000"]]
NoIdCoin == [dict |-> [symbol |-> "sol", name |-> "Solana", current_price |-> "150"]]
NotADict == [scalar |-> "oops"]

PriceDoc(stamp, data) == [dict |-> [fetch_timestamp |-> stamp, source |-> "coingecko", num_records |-> Len(data), data |-> [list |-> data]]]

\* the texts a blob under raw/prices/ may hold; stamp stands for the time of the fetch
PriceTexts(stamp) ==
    { [notjson |-> TRUE],
      [dict |-> [error |-> "rate limited"]],
      [dict |-> [data |-> [list |-> <<Ethereum>>]]],
      PriceDoc(stamp, <<>>),
      PriceDoc(stamp, <<Bitcoin, Ethereum>>),
      PriceDoc(stamp, <<NoIdCoin, Ethereum>>),
      PriceDoc(stamp, <<Bitcoin, NotADict>>) }

\* the fetch_timestamp save_to_local_json writes into the i-th blob
Stamp(i) == "T" \o ToString(i)

\* listings of at most MaxBlobs blobs; the i-th blob was fetched at Stamp(i)
Listings(texts) ==
    UNION { { s \in [1..n -> UNION { texts[i] : i \in 1..n }] :
                \A i \in 1..n : s[i] \in texts[i] } : n \in 0..MaxBlobs }

----------------------------------------------------------------------------
(* load_prices_to_staging: one blob of the for loop *)

PriceColumns ==
    { "fetch_timestamp", "source", "coin_id", "symbol", "name", "current_price",
      "market_cap", "market_cap_rank", "total_volume", "high_24h", "low_24h",
      "price_change_24h", "price_change_percentage_24h", "market_cap_change_24h",
      "circulating_supply", "total_supply", "max_supply", "last_updated" }

\* the row built for one coin of the data list
PriceRow(data, coin) ==
    [c \in PriceColumns |->
        CASE c = "fetch_timestamp" -> Get(data, "fetch_timestamp")
          [] c = "source" -> GetDefault(data, "source", "coingecko")
          [] c = "coin_id" -> Get(coin, "id")
          [] OTHER -> Get(coin, c)]

\* 'data' in data and isinstance(data['data'], list), for a JSON object
HasDataList(data) == "data" \in DOMAIN data /\ "list" \in DOMAIN data["data"]

\* mutant: the inner loop stops one leaf early
PriceRowsToInsert_DropsLast(data) ==
    [k \in 1..(Len(data["data"].list) - 1) |-> PriceRow(data, data["data"].list[k].dict)]

\* rows_to_insert after the inner loop; only for leaves that are all objects
PriceRowsToInsert(data) ==
    [k \in 1..Len(data["data"].list) |-> PriceRow(data, data["data"].list[k].dict)]

\* what the try block does before it reaches the insert:
\* "raised" (the except branch), "no_data" (the if is false), or "rows"
PriceParse(text) ==
    IF "notjson" \in DOMAIN text THEN [outcome |-> "parse_raised", rows |-> <<>>]
    ELSE IF ~HasDataList(text.dict) THEN [outcome |-> "no_data", rows |-> <<>>]
    ELSE IF \E k \in 1..Len(text.dict["data"].list) : "dict" \notin DOMAIN text.dict["data"].list[k]
         THEN [outcome |-> "record_raised", rows |-> <<>>]
    ELSE [outcome |-> "rows", rows |-> PriceRowsToInsert(text.dict)]

\* mutant: the rows of a blob are counted although the insert reported errors
BlobOutcome_CountsOnErrors(parsed, download, insert) ==
    IF download = "raise" THEN [outcome |-> "download_raised", rows |-> <<>>, loaded |-> 0]
    ELSE IF parsed.outcome # "rows" THEN [outcome |-> parsed.outcome, rows |-> <<>>, loaded |-> 0]
    ELSE IF parsed.rows = <<>> THEN [outcome |-> "empty", rows |-> <<>>, loaded |-> 0]
    ELSE IF insert = "raise" THEN [outcome |-> "insert_raised", rows |-> <<>>, loaded |-> 0]
    ELSE IF insert = "errors" THEN [outcome |-> "insert_errors", rows |-> <<>>, loaded |-> Len(parsed.rows)]
    ELSE [outcome |-> "loaded", rows |-> parsed.rows, loaded |-> Len(parsed.rows)]

\* the outcome of one loop iteration: download in {"ok", "raise"},
\* insert in {"ok", "errors", "raise"} is what insert_rows_json does if called
BlobOutcome(parsed, download, insert) ==
    IF download = "raise" THEN [outcome |-> "download_raised", rows |-> <<>>, loaded |-> 0]
    ELSE IF parsed.outcome # "rows" THEN [outcome |-> parsed.outcome, rows |-> <<>>, loaded |-> 0]
    ELSE IF parsed.rows = <<>> THEN [outcome |-> "empty", rows |-> <<>>, loaded |-> 0]
    ELSE IF insert = "raise" THEN [outcome |-> "insert_raised", rows |-> <<>>, loaded |-> 0]
    ELSE IF insert = "errors" THEN [outcome |-> "insert_errors", rows |-> <<>>, loaded |-> 0]
    ELSE [outcome |-> "loaded", rows |-> parsed.rows, loaded |-> Len(parsed.rows)]

\* mutant: the last limit blobs of the listing in the place of the first
ListGcsFiles_TakesLast(listing, limit, listOk) ==
    IF ~listOk THEN <<>>
    ELSE IF limit # 0 /\ limit < Len(listing) THEN SubSeq(listing, Len(listing) - limit + 1, Len(listing))
    ELSE listing

\* blobs[:limit] if limit else blobs; a listing that raises gives []
ListGcsFiles(listing, limit, listOk) ==
    IF ~listOk THEN <<>>
    ELSE IF limit # 0 /\ limit < Len(listing) THEN SubSeq(listing, 1, limit)
    ELSE listing

----------------------------------------------------------------------------
(* Raw sentiment blobs.  The value and timestamp of a reading are JSON     *)
(* strings ([str], a sequence of characters), JSON integers ([int]) or     *)
(* null ([null]).                                                          *)

Str(chars) == [str |-> chars]
Int_(n) == [int |-> n]
JsonNull == [null |-> TRUE]

Digits == {"0", "1", "2", "3", "4", "5", "6", "7", "8", "9"}
Whitespace == {" ", "\t", "\n"}
DigitValue(c) ==
    CASE c = "0" -> 0 [] c = "1" -> 1 [] c = "2" -> 2 [] c = "3" -> 3 [] c = "4" -> 4
      [] c = "5" -> 5 [] c = "6" -> 6 [] c = "7" -> 7 [] c = "8" -> 8 [] c = "9" -> 9

\* str.strip() on a sequence of characters
RECURSIVE LStrip(_)
LStrip(s) == IF s # <<>> /\ Head(s) \in Whitespace THEN LStrip(Tail(s)) ELSE s
RECURSIVE RStrip(_)
RStrip(s) == IF s # <<>> /\ s[Len(s)] \in Whitespace THEN RStrip(SubSeq(s, 1, Len(s) - 1)) ELSE s
Strip(s) == RStrip(LStrip(s))

\* the digits of an integer literal: digits, single underscores between them
IsDigitString(s) ==
    /\ s # <<>>
    /\ \A k \in 1..Len(s) : s[k] \in Digits \cup {"_"}
    /\ s[1] \in Digits
    /\ s[Len(s)] \in Digits
    /\ \A k \in 1..(Len(s) - 1) : ~(s[k] = "_" /\ s[k + 1] = "_")

RECURSIVE DigitsValue(_, _)
DigitsValue(s, acc) ==
    IF s = <<>> THEN acc
    ELSE IF Head(s) = "_" THEN DigitsValue(Tail(s), acc)
    ELSE DigitsValue(Tail(s), 10 * acc + DigitValue(Head(s)))

\* int(v) of Python: [ok |-> TRUE, value |-> n], or [ok |-> FALSE] when it raises
\* (TypeError for None, ValueError for a string that is no integer literal)
PyInt(v) ==
    IF "int" \in DOMAIN v THEN [ok |-> TRUE, value |-> v.int]
    ELSE IF "null" \in DOMAIN v THEN [ok |-> FALSE]
    ELSE LET t == Strip(v.str)
             signed == t # <<>> /\ Head(t) \in {"+", "-"}
             body == IF signed THEN Tail(t) ELSE t
         IN IF ~IsDigitString(body) THEN [ok |-> FALSE]
            ELSE [ok |-> TRUE,
                  value |-> IF signed /\ Head(t) = "-" THEN 0 - DigitsValue(body, 0)
                            ELSE DigitsValue(body, 0)]

\* record.get(key) for a JSON field that may be absent
GetJson(d, key) == IF key \in DOMAIN d THEN d[key] ELSE JsonNull

\* datetime.fromtimestamp(n, tz=timezone.utc).isoformat(): the civil date and
\* time of epoch second n in UTC, as <<year, month, day, hour, minute, second>>
IsoFormat(n) ==
    LET days == n \div 86400
        secs == n % 86400
        z == days + 719468
        era == z \div 146097
        doe == z - era * 146097
        yoe == (doe - doe \div 1460 + doe \div 36524 - doe \div 146096) \div 365
        doy == doe - (365 * yoe + yoe \div 4 - yoe \div 100)
        mp == (5 * doy + 2) \div 153
        d == doy - (153 * mp + 2) \div 5 + 1
        m == IF mp < 10 THEN mp + 3 ELSE mp - 9
        y == yoe + era * 400 + (IF m <= 2 THEN 1 ELSE 0)
    IN <<y, m, d, secs \div 3600, (secs % 3600) \div 60, secs % 60>>

Greed65 == [dict |-> [value |-> Str(<<"6", "5">>), value_classification |-> "Greed",
                      timestamp |-> Str(<<"1", "7", "0", "0", "0", "0", "0", "0", "0", "0">>),
                      time_until_update |-> "3600"]]
Fear30 == [dict |-> [value |-> Int_(30), value_classification |-> "Fear",
                     timestamp |-> Str(<<" ", "1", "7", "0", "0", "0", "8", "6", "4", "0", "0", "\n">>)]]
BadValue == [dict |-> [value |-> Str(<<"6", "5", ".", "5">>), value_classification |-> "Greed",
                       timestamp |-> Int_(1700000000)]]
NoTimestamp == [dict |-> [value |-> Str(<<"4", "0">>), value_classification |-> "Fear"]]
BadTimestamp == [dict |-> [value |-> Str(<<"4", "0">>), value_classification |-> "Fear",
                           timestamp |-> Str(<<"n", "o", "w">>)]]

SentimentDoc(stamp, data) == [dict |-> [fetch_timestamp |-> stamp, source |-> "feargreed_index", num_records |-> Len(data), data |-> [list |-> data]]]

\* the texts a blob under raw/sentiment/ may hold
SentimentTexts(stamp) ==
    { [notjson |-> TRUE],
      [dict |-> [metadata |-> "error"]],
      [dict |-> [data |-> [list |-> <<Fear30>>]]],
      SentimentDoc(stamp, <<Greed65, Fear30>>),
      SentimentDoc(stamp, <<BadValue, Fear30>>),
      SentimentDoc(stamp, <<Greed65, BadTimestamp>>),
      SentimentDoc(stamp, <<NoTimestamp, Greed65>>) }

----------------------------------------------------------------------------
(* load_sentiment_to_staging: one blob of the for loop *)

\* the row built for one reading; only when both conversions succeed
SentimentRow(data, record) ==
    [fetch_timestamp |-> Get(data, "fetch_timestamp"),
     source |-> GetDefault(data, "source", "feargreed_index"),
     value |-> PyInt(GetJson(record, "value")).value,
     value_classification |-> Get(record, "value_classification"),
     timestamp |-> IsoFormat(PyInt(GetJson(record, "timestamp")).value),
     time_until_update |-> Get(record, "time_until_update")]

\* building the row for this leaf raises
SentimentRowRaises(leaf) ==
    \/ "dict" \notin DOMAIN leaf
    \/ ~PyInt(GetJson(leaf.dict, "value")).ok
    \/ ~PyInt(GetJson(leaf.dict, "timestamp")).ok

SentimentRowsToInsert(data) ==
    [k \in 1..Len(data["data"].list) |-> SentimentRow(data, data["data"].list[k].dict)]

\* mutant: a record that does not convert is left out and the others are kept
SentimentParse_SkipsBadRecords(text) ==
    IF "notjson" \in DOMAIN text THEN [outcome |-> "parse_raised", rows |-> <<>>]
    ELSE IF ~HasDataList(text.dict) THEN [outcome |-> "no_data", rows |-> <<>>]
    ELSE LET good == SelectSeq(text.dict["data"].list, LAMBDA leaf : ~SentimentRowRaises(leaf)) IN
         [outcome |-> "rows", rows |-> [k \in 1..Len(good) |-> SentimentRow(text.dict, good[k].dict)]]

\* json.loads of the blob, then one row per record of data['data']; the
\* first record that raises ends the iteration for this blob
SentimentParse(text) ==
    IF "notjson" \in DOMAIN text THEN [outcome |-> "parse_raised", rows |-> <<>>]
    ELSE IF ~HasDataList(text.dict) THEN [outcome |-> "no_data", rows |-> <<>>]
    ELSE IF \E k \in 1..Len(text.dict["data"].list) : SentimentRowRaises(text.dict["data"].list[k])
         THEN [outcome |-> "record_raised", rows |-> <<>>]
    ELSE [outcome |-> "rows", rows |-> SentimentRowsToInsert(text.dict)]

----------------------------------------------------------------------------
(* The staging-load process.  pc is "idle" before any call, "prices_list" / *)
(* "sentiment_list" on entry of a load function, "prices_loop" /           *)
(* "sentiment_loop" inside its for loop, "done" when the process of        *)
(* run_load_to_staging has exited.                                         *)

Returned(fn, v) == [fn |-> fn, value |-> v]
Raised(fn) == [fn |-> fn, raised |-> TRUE]

\* mutant: the insert replaces the content of the table
InsertRows_Truncates(table, rows) == SeqToBag(rows)

\* mutant: an insert that leaves out the rows the table already holds
InsertRows_SkipsExisting(table, rows) ==
    table (+) SeqToBag(SelectSeq(rows, LAMBDA r : ~BagIn(r, table)))

\* client.insert_rows_json(table_id, rows_to_insert) without errors: the
\* rows are appended to the table
InsertRows(table, rows) == table (+) SeqToBag(rows)

\* requests one loop iteration makes: the download, and the insert if reached
Requests(o) == IF o.outcome \in {"loaded", "insert_errors", "insert_raised"} THEN 2 ELSE 1

\* the frame of a load function on entry
EnterLoad(table) ==
    /\ blobs' = <<>>
    /\ idx' = 0
    /\ records_loaded' = 0
    /\ log' = <<>>
    /\ stg_before' = table

\* a direct call load_prices_to_staging(project_id, dataset_id, bucket_name, limit)
CallLoadPrices(limit) ==
    /\ pc = "idle"
    /\ calls < MaxCalls
    /\ pc' = "prices_list"
    /\ caller' = "direct"
    /\ limit_files' = limit
    /\ calls' = calls + 1
    /\ EnterLoad(stg_prices_raw)
    /\ io' = 0
    /\ unreachable' = {}
    /\ UNCHANGED <<ret, env, runVars, times, xfVars, storeVars, restVars, stgVars>>

\* load_prices_to_staging returns v; run_load_to_staging goes on to call
\* load_sentiment_to_staging
ReturnPrices(v) ==
    /\ ret' = Returned("prices", v)
    /\ IF caller = "run"
       THEN /\ prices_count' = v
            /\ pc' = "sentiment_list"
            /\ EnterLoad(stg_sentiment_raw)
       ELSE /\ pc' = "idle"
            /\ UNCHANGED <<prices_count, frameVars>>
    /\ UNCHANGED <<sentiment_count, success, exit_status>>

\* an exception leaves the load function: nothing in run_load_to_staging or
\* __main__ catches it, so the interpreter exits with status 1
RaiseOut(fn) ==
    /\ ret' = Raised(fn)
    /\ IF caller = "run"
       THEN /\ pc' = "done"
            /\ exit_status' = 1
            /\ success' = "raised"
       ELSE /\ pc' = "idle"
            /\ UNCHANGED <<exit_status, success>>
    /\ UNCHANGED <<prices_count, sentiment_count, frameVars>>

\* load_prices_to_staging up to the for loop: the client, the listing, if not blobs
PricesList ==
    /\ pc = "prices_list"
    /\ \E clientOk \in BOOLEAN, listOk \in BOOLEAN :
        IF ~clientOk
        THEN RaiseOut("prices") /\ UNCHANGED <<io, unreachable>>
        ELSE LET found == ListGcsFiles(bucket_prices, limit_files, listOk) IN
             /\ io' = io + 1
             /\ unreachable' = IF listOk THEN unreachable ELSE unreachable \cup {"prices"}
             /\ IF found = <<>>
                THEN ReturnPrices(0)
                ELSE /\ pc' = "prices_loop"
                     /\ blobs' = found
                     /\ UNCHANGED <<idx, records_loaded, log, stg_before, ret, runVars>>
    /\ UNCHANGED <<caller, limit_files, calls, env, times, xfVars, storeVars, restVars, stgVars>>

\* mutant: break in the place of continue, a failed blob ends the loop
PricesBlob_BreaksOnFailure ==
    /\ pc = "prices_loop"
    /\ idx < Len(blobs)
    /\ \E download \in {"ok", "raise"}, insert \in {"ok", "errors", "raise"} :
        LET o == BlobOutcome(PriceParse(blobs[idx + 1]), download, insert) IN
        /\ stg_prices_raw' = InsertRows(stg_prices_raw, o.rows)
        /\ records_loaded' = records_loaded + o.loaded
        /\ log' = Append(log, [outcome |-> o.outcome, loaded |-> o.loaded])
        /\ io' = io + Requests(o)
        /\ times' = IF o.outcome = "loaded"
                    THEN [times EXCEPT !.prices[idx + 1] = @ + 1]
                    ELSE times
        /\ idx' = IF o.outcome \in {"loaded", "empty", "no_data"} THEN idx + 1 ELSE Len(blobs)
    /\ UNCHANGED <<pc, caller, limit_files, blobs, stg_before, ret, calls, env, runVars>>
    /\ UNCHANGED <<unreachable, xfVars, storeVars, restVars, stg_sentiment_raw>>

\* one iteration of the for loop of load_prices_to_staging
PricesBlob ==
    /\ pc = "prices_loop"
    /\ idx < Len(blobs)
    /\ \E download \in {"ok", "raise"}, insert \in {"ok", "errors", "raise"} :
        LET o == BlobOutcome(PriceParse(blobs[idx + 1]), download, insert) IN
        /\ stg_prices_raw' = InsertRows(stg_prices_raw, o.rows)
        /\ records_loaded' = records_loaded + o.loaded
        /\ log' = Append(log, [outcome |-> o.outcome, loaded |-> o.loaded])
        /\ io' = io + Requests(o)
        /\ times' = IF o.outcome = "loaded"
                    THEN [times EXCEPT !.prices[idx + 1] = @ + 1]
                    ELSE times
    /\ idx' = idx + 1
    /\ UNCHANGED <<pc, caller, limit_files, blobs, stg_before, ret, calls, env, runVars>>
    /\ UNCHANGED <<unreachable, xfVars, storeVars, restVars, stg_sentiment_raw>>

\* the for loop is over: return records_loaded
PricesReturn ==
    /\ pc = "prices_loop"
    /\ idx = Len(blobs)
    /\ ReturnPrices(records_loaded)
    /\ UNCHANGED <<caller, limit_files, calls, env, io, unreachable, times, xfVars, storeVars, restVars, stgVars>>

----------------------------------------------------------------------------
(* load_sentiment_to_staging *)

\* a direct call load_sentiment_to_staging(project_id, dataset_id, bucket_name, limit)
CallLoadSentiment(limit) ==
    /\ pc = "idle"
    /\ calls < MaxCalls
    /\ pc' = "sentiment_list"
    /\ caller' = "direct"
    /\ limit_files' = limit
    /\ calls' = calls + 1
    /\ EnterLoad(stg_sentiment_raw)
    /\ io' = 0
    /\ unreachable' = {}
    /\ UNCHANGED <<ret, env, runVars, times, xfVars, storeVars, restVars, stgVars>>

\* load_sentiment_to_staging returns v; in run_load_to_staging the summary
\* is logged, True is returned and __main__ exits with 0
ReturnSentiment(v) ==
    /\ ret' = Returned("sentiment", v)
    /\ IF caller = "run"
       THEN /\ sentiment_count' = v
            /\ success' = "True"
            /\ exit_status' = 0
            /\ pc' = "done"
       ELSE /\ pc' = "idle"
            /\ UNCHANGED <<sentiment_count, success, exit_status>>
    /\ UNCHANGED <<prices_count, frameVars>>

\* load_sentiment_to_staging up to the for loop
SentimentList ==
    /\ pc = "sentiment_list"
    /\ \E clientOk \in BOOLEAN, listOk \in BOOLEAN :
        IF ~clientOk
        THEN RaiseOut("sentiment") /\ UNCHANGED <<io, unreachable>>
        ELSE LET found == ListGcsFiles(bucket_sentiment, limit_files, listOk) IN
             /\ io' = io + 1
             /\ unreachable' = IF listOk THEN unreachable ELSE unreachable \cup {"sentiment"}
             /\ IF found = <<>>
                THEN ReturnSentiment(0)
                ELSE /\ pc' = "sentiment_loop"
                     /\ blobs' = found
                     /\ UNCHANGED <<idx, records_loaded, log, stg_before, ret, runVars>>
    /\ UNCHANGED <<caller, limit_files, calls, env, times, xfVars, storeVars, restVars, stgVars>>

\* one iteration of the for loop of load_sentiment_to_staging
SentimentBlob ==
    /\ pc = "sentiment_loop"
    /\ idx < Len(blobs)
    /\ \E download \in {"ok", "raise"}, insert \in {"ok", "errors", "raise"} :
        LET o == BlobOutcome(SentimentParse(blobs[idx + 1]), download, insert) IN
        /\ stg_sentiment_raw' = InsertRows(stg_sentiment_raw, o.rows)
        /\ records_loaded' = records_loaded + o.loaded
        /\ log' = Append(log, [outcome |-> o.outcome, loaded |-> o.loaded])
        /\ io' = io + Requests(o)
        /\ times' = IF o.outcome = "loaded"
                    THEN [times EXCEPT !.sentiment[idx + 1] = @ + 1]
                    ELSE times
    /\ idx' = idx + 1
    /\ UNCHANGED <<pc, caller, limit_files, blobs, stg_before, ret, calls, env, runVars>>
    /\ UNCHANGED <<unreachable, xfVars, storeVars, restVars, stg_prices_raw>>

\* the for loop is over: return records_loaded
SentimentReturn ==
    /\ pc = "sentiment_loop"
    /\ idx = Len(blobs)
    /\ ReturnSentiment(records_loaded)
    /\ UNCHANGED <<caller, limit_files, calls, env, io, unreachable, times, xfVars, storeVars, restVars, stgVars>>

----------------------------------------------------------------------------
(* run_load_to_staging and __main__ *)

\* what os.getenv gives for a variable: None when unset, else its text
EnvValues == {NULL, "", "set"}
Envs == [GCP_PROJECT_ID : EnvValues, GCS_BUCKET_NAME : EnvValues]

\* bool(v) of Python for None and strings
Truthy(v) == v # NULL /\ v # ""

\* mutant: any() in the place of all()
MissingRequired_Any(e) == ~(Truthy(e.GCP_PROJECT_ID) \/ Truthy(e.GCS_BUCKET_NAME))

\* not all([project_id, bucket_name])
MissingRequired(e) == ~(Truthy(e.GCP_PROJECT_ID) /\ Truthy(e.GCS_BUCKET_NAME))

\* python load_to_staging.py: run_load_to_staging(limit_files=10) up to the
\* call of load_prices_to_staging, or to exit(1) when a variable is missing
RunStart ==
    /\ pc \in {"idle", "done"}
    /\ calls < MaxCalls
    /\ calls' = calls + 1
    /\ caller' = "run"
    /\ limit_files' = DefaultLimitFiles
    /\ io' = 0
    /\ unreachable' = {}
    /\ prices_count' = 0
    /\ sentiment_count' = 0
    /\ EnterLoad(stg_prices_raw)
    /\ ret' = [none |-> TRUE]
    /\ \E e \in Envs :
        /\ env' = e
        /\ IF MissingRequired(e)
           THEN /\ success' = "False"
                /\ exit_status' = 1
                /\ pc' = "done"
           ELSE /\ success' = NONE
                /\ exit_status' = -1
                /\ pc' = "prices_list"
    /\ UNCHANGED <<times, xfVars, storeVars, restVars, stgVars>>

\* what is known of a load function whose process was killed
Killed(fn) == [fn |-> fn, killed |-> TRUE]

\* the load function that is running
Running == IF pc \in {"prices_list", "prices_loop"} THEN "prices" ELSE "sentiment"

\* the rows of the insert request the running iteration makes if it gets
\* that far
PendingRows ==
    IF pc \notin {"prices_loop", "sentiment_loop"} \/ idx >= Len(blobs) THEN <<>>
    ELSE IF pc = "prices_loop" THEN PriceParse(blobs[idx + 1]).rows
    ELSE SentimentParse(blobs[idx + 1]).rows

\* mutant: the kill cuts an insert request in two
KillLoader_PartialInsert ==
    /\ caller = "run"
    /\ pc \in {"prices_list", "prices_loop", "sentiment_list", "sentiment_loop"}
    /\ \E sent \in BOOLEAN :
        LET rows == IF sent /\ PendingRows # <<>> THEN <<Head(PendingRows)>> ELSE <<>> IN
        /\ stg_prices_raw' = IF Running = "prices" THEN InsertRows(stg_prices_raw, rows) ELSE stg_prices_raw
        /\ stg_sentiment_raw' = IF Running = "sentiment" THEN InsertRows(stg_sentiment_raw, rows) ELSE stg_sentiment_raw
        /\ times' = IF rows # <<>> THEN [times EXCEPT ![Running][idx + 1] = @ + 1] ELSE times
    /\ pc' = "done"
    /\ exit_status' = 137
    /\ ret' = Killed(Running)
    /\ UNCHANGED <<caller, limit_files, frameVars, calls, env, prices_count, sentiment_count, success>>
    /\ UNCHANGED <<io, unreachable, xfVars, storeVars, restVars>>

\* the process of run_load_to_staging is killed inside a load function:
\* nothing more is written, except that the insert request of the running
\* iteration may have reached the warehouse, which then holds its rows
KillLoader ==
    /\ caller = "run"
    /\ pc \in {"prices_list", "prices_loop", "sentiment_list", "sentiment_loop"}
    /\ \E sent \in BOOLEAN :
        LET rows == IF sent THEN PendingRows ELSE <<>> IN
        /\ stg_prices_raw' = IF Running = "prices" THEN InsertRows(stg_prices_raw, rows) ELSE stg_prices_raw
        /\ stg_sentiment_raw' = IF Running = "sentiment" THEN InsertRows(stg_sentiment_raw, rows) ELSE stg_sentiment_raw
        /\ times' = IF rows # <<>> THEN [times EXCEPT ![Running][idx + 1] = @ + 1] ELSE times
    /\ pc' = "done"
    /\ exit_status' = 137
    /\ ret' = Killed(Running)
    /\ UNCHANGED <<caller, limit_files, frameVars, calls, env, prices_count, sentiment_count, success>>
    /\ UNCHANGED <<io, unreachable, xfVars, storeVars, restVars>>

----------------------------------------------------------------------------
(* The coin dimension.  create_dimensional_tables declares the table; the  *)
(* warehouse enforces the REQUIRED columns and nothing else (no key, no    *)
(* uniqueness).                                                            *)

DimCoinColumns == {"coin_key", "coin_id", "symbol", "name", "effective_date", "expiry_date", "is_current"}
DimCoinRequired == {"coin_key", "coin_id"}

\* the warehouse takes a dim_coin row: the declared columns, REQUIRED ones not null
DimCoinAccepts(row) ==
    /\ DOMAIN row = DimCoinColumns
    /\ \A c \in DimCoinRequired : row[c] # NULL

----------------------------------------------------------------------------
(* The dimensional transformer's coin upsert, after sections 4.2 and 5 of  *)
(* the design: for each distinct coin natural key of the batch, look up    *)
(* the active row; none: insert; same tracked attributes: nothing;         *)
(* different: expire the old row and insert a new one.  Expire and insert  *)
(* are conditional statements (the optimistic check on the natural key).   *)

\* most transformer runs in a behaviour
MaxRuns == 3

\* the transformer invocations that may be alive together
Transformers == {"t1", "t2"}

\* natural key and tracked attributes of a staging row or a dim_coin row
NaturalKey(r) == <<r.coin_id, r.symbol>>
Tracked(r) == <<r.name, r.symbol>>

\* the coin bitcoin as a later fetch names it
BitcoinRenamed == [dict |-> [id |-> "bitcoin", symbol |-> "btc", name |-> "Bitcoin Core", current_price |-> "50001"]]

\* the staging rows a batch may hold
StagedCoins ==
    { PriceRow(PriceDoc(Stamp(1), <<>>).dict, leaf.dict) :
        leaf \in {Bitcoin, BitcoinRenamed, Ethereum, NoIdCoin} }

\* a batch: staging rows, one for each distinct natural key seen
Batches == { b \in SUBSET StagedCoins : \A r1, r2 \in b : NaturalKey(r1) = NaturalKey(r2) => r1 = r2 }

CoinKeys == { NaturalKey(r) : r \in StagedCoins }

\* the row is a coin the dimension can hold: its identifier is there
Resolvable(r) == r.coin_id # NULL

\* the currently-active rows of a natural key
ActiveRows(table, key) == { d \in table : NaturalKey(d) = key /\ d.is_current }

\* the TIMESTAMP of clock reading n, and the n-th surrogate key
Instant(n) == "time" \o ToString(n)
SurrogateKey(n) == "coin" \o ToString(n)

\* mutant: the new row is not flagged as the current one
NewCoinRow_NotCurrent(r, key, at) ==
    [coin_key |-> key, coin_id |-> r.coin_id, symbol |-> r.symbol, name |-> r.name,
     effective_date |-> Instant(at), expiry_date |-> NULL, is_current |-> FALSE]

\* the new row of the dimension for staging row r
NewCoinRow(r, key, at) ==
    [coin_key |-> key, coin_id |-> r.coin_id, symbol |-> r.symbol, name |-> r.name,
     effective_date |-> Instant(at), expiry_date |-> NULL, is_current |-> TRUE]

\* mutant: the expired row keeps an open expiry date
ExpiredRow_NoExpiryDate(d, at) == [d EXCEPT !.is_current = FALSE]

\* the row d, expired at time at
ExpiredRow(d, at) == [d EXCEPT !.expiry_date = Instant(at), !.is_current = FALSE]

NoRow == [none |-> TRUE]
Idle == [pc |-> "idle", todo |-> {}, cur |-> NoRow, seen |-> {}, at |-> 0]

\* the names a key was loaded with, after a batch: a name that differs from
\* the last one loaded is a new version
Loaded(v, batch, at) ==
    [k \in CoinKeys |->
        LET rs == { r \in batch : Resolvable(r) /\ NaturalKey(r) = k } IN
        IF rs = {} THEN v[k]
        ELSE LET r == CHOOSE r \in rs : TRUE IN
             IF v[k] # <<>> /\ v[k][Len(v[k])].name = r.name THEN v[k]
             ELSE Append(v[k], [name |-> r.name, at |-> at])]

\* a transformer invocation begins with the staged rows of its batch
XfBegin(t, batch) ==
    /\ xf[t].pc = "idle"
    /\ xf_runs < MaxRuns
    /\ xf_runs' = xf_runs + 1
    /\ now' = now + 1
    /\ xf' = [xf EXCEPT ![t] = [pc |-> "lookup", todo |-> batch, cur |-> NoRow, seen |-> {}, at |-> now + 1]]
    /\ versions' = Loaded(versions, batch, now + 1)
    /\ UNCHANGED <<dim_coin, storeVars, restVars, stgVars, loadVars>>

\* the next row of the batch: skip it when its key cannot be resolved, else
\* look up the active row of its natural key
XfLookUp(t) ==
    /\ xf[t].pc = "lookup"
    /\ \E r \in xf[t].todo :
        IF ~Resolvable(r)
        THEN xf' = [xf EXCEPT ![t].todo = @ \ {r}]
        ELSE LET active == ActiveRows(dim_coin, NaturalKey(r)) IN
             IF active = {}
             THEN xf' = [xf EXCEPT ![t].cur = r, ![t].seen = {}, ![t].pc = "insert"]
             ELSE IF \E d \in active : Tracked(d) = Tracked(r)
             THEN xf' = [xf EXCEPT ![t].todo = @ \ {r}]
             ELSE xf' = [xf EXCEPT ![t].cur = r, ![t].seen = active, ![t].pc = "expire"]
    /\ UNCHANGED <<dim_coin, now, xf_runs, versions, storeVars, restVars, stgVars, loadVars>>

\* expire the row that was looked up, if it is still the active one;
\* if it is not, look up again
XfExpire(t) ==
    /\ xf[t].pc = "expire"
    /\ IF ActiveRows(dim_coin, NaturalKey(xf[t].cur)) = xf[t].seen
       THEN /\ dim_coin' = (dim_coin \ xf[t].seen) \cup { ExpiredRow(d, xf[t].at) : d \in xf[t].seen }
            /\ xf' = [xf EXCEPT ![t].pc = "insert", ![t].seen = {}]
       ELSE /\ xf' = [xf EXCEPT ![t].pc = "lookup", ![t].cur = NoRow, ![t].seen = {}]
            /\ UNCHANGED dim_coin
    /\ UNCHANGED <<now, xf_runs, versions, storeVars, restVars, stgVars, loadVars>>

\* a surrogate key no row of the table has
FreshKey(table) == SurrogateKey(1 + Cardinality(table))

\* mutant: the insert does not check for an active row
XfInsert_Unconditional(t) ==
    /\ xf[t].pc = "insert"
    /\ LET row == NewCoinRow(xf[t].cur, FreshKey(dim_coin), xf[t].at) IN
        /\ DimCoinAccepts(row)
        /\ dim_coin' = dim_coin \cup {row}
        /\ xf' = [xf EXCEPT ![t].pc = "lookup", ![t].todo = @ \ {xf[t].cur}, ![t].cur = NoRow]
    /\ UNCHANGED <<now, xf_runs, versions, storeVars, restVars, stgVars, loadVars>>

\* insert the new active row, if the key has no active row; if it has one,
\* look up again
XfInsert(t) ==
    /\ xf[t].pc = "insert"
    /\ IF ActiveRows(dim_coin, NaturalKey(xf[t].cur)) = {}
       THEN LET row == NewCoinRow(xf[t].cur, FreshKey(dim_coin), xf[t].at) IN
            /\ DimCoinAccepts(row)
            /\ dim_coin' = dim_coin \cup {row}
            /\ xf' = [xf EXCEPT ![t].pc = "lookup", ![t].todo = @ \ {xf[t].cur}, ![t].cur = NoRow]
       ELSE /\ xf' = [xf EXCEPT ![t].pc = "lookup", ![t].cur = NoRow]
            /\ UNCHANGED dim_coin
    /\ UNCHANGED <<now, xf_runs, versions, storeVars, restVars, stgVars, loadVars>>

\* the batch is finished
XfEnd(t) ==
    /\ xf[t].pc = "lookup"
    /\ xf[t].todo = {}
    /\ xf' = [xf EXCEPT ![t] = Idle]
    /\ UNCHANGED <<dim_coin, now, xf_runs, versions, storeVars, restVars, stgVars, loadVars>>

\* no transformer invocation is alive
AllIdle == \A t \in Transformers : xf[t].pc = "idle"

----------------------------------------------------------------------------
(* The structure of the warehouse: create_staging_tables and               *)
(* create_dimensional_tables.  A schema is the sequence of its fields.     *)

\* bigquery.SchemaField(name, field_type, mode="NULLABLE")
SchemaField(name, field_type) == [name |-> name, field_type |-> field_type, mode |-> "NULLABLE"]
RequiredField(name, field_type) == [name |-> name, field_type |-> field_type, mode |-> "REQUIRED"]

prices_schema ==
    << SchemaField("fetch_timestamp", "TIMESTAMP"), SchemaField("source", "STRING"),
       SchemaField("coin_id", "STRING"), SchemaField("symbol", "STRING"),
       SchemaField("name", "STRING"), SchemaField("current_price", "FLOAT64"),
       SchemaField("market_cap", "FLOAT64"), SchemaField("market_cap_rank", "INTEGER"),
       SchemaField("total_volume", "FLOAT64"), SchemaField("high_24h", "FLOAT64"),
       SchemaField("low_24h", "FLOAT64"), SchemaField("price_change_24h", "FLOAT64"),
       SchemaField("price_change_percentage_24h", "FLOAT64"),
       SchemaField("market_cap_change_24h", "FLOAT64"),
       SchemaField("circulating_supply", "FLOAT64"), SchemaField("total_supply", "FLOAT64"),
       SchemaField("max_supply", "FLOAT64"), SchemaField("last_updated", "TIMESTAMP") >>

sentiment_schema ==
    << SchemaField("fetch_timestamp", "TIMESTAMP"), SchemaField("source", "STRING"),
       SchemaField("value", "INTEGER"), SchemaField("value_classification", "STRING"),
       SchemaField("timestamp", "TIMESTAMP"), SchemaField("time_until_update", "INTEGER") >>

dim_coin_schema ==
    << RequiredField("coin_key", "STRING"), RequiredField("coin_id", "STRING"),
       SchemaField("symbol", "STRING"), SchemaField("name", "STRING"),
       SchemaField("effective_date", "TIMESTAMP"), SchemaField("expiry_date", "TIMESTAMP"),
       SchemaField("is_current", "BOOLEAN") >>

dim_timestamp_schema ==
    << RequiredField("timestamp_key", "STRING"), RequiredField("timestamp", "TIMESTAMP"),
       SchemaField("date", "DATE"), SchemaField("hour", "INTEGER"),
       SchemaField("day_of_week", "INTEGER"), SchemaField("day_name", "STRING"),
       SchemaField("week_of_year", "INTEGER"), SchemaField("month", "INTEGER"),
       SchemaField("month_name", "STRING"), SchemaField("quarter", "INTEGER"),
       SchemaField("year", "INTEGER"), SchemaField("is_weekend", "BOOLEAN") >>

fact_price_schema ==
    << RequiredField("snapshot_id", "STRING"), RequiredField("coin_key", "STRING"),
       RequiredField("timestamp_key", "STRING"), SchemaField("current_price", "FLOAT64"),
       SchemaField("market_cap", "FLOAT64"), SchemaField("market_cap_rank", "INTEGER"),
       SchemaField("total_volume", "FLOAT64"), SchemaField("high_24h", "FLOAT64"),
       SchemaField("low_24h", "FLOAT64"), SchemaField("price_change_24h", "FLOAT64"),
       SchemaField("price_change_percentage_24h", "FLOAT64"),
       SchemaField("market_cap_change_24h", "FLOAT64"),
       SchemaField("circulating_supply", "FLOAT64"), SchemaField("total_supply", "FLOAT64"),
       SchemaField("max_supply", "FLOAT64"), SchemaField("data_source", "STRING") >>

fact_sentiment_schema ==
    << RequiredField("sentiment_id", "STRING"), RequiredField("timestamp_key", "STRING"),
       SchemaField("sentiment_value", "INTEGER"),
       SchemaField("sentiment_classification", "STRING"),
       SchemaField("data_source", "STRING") >>

\* the tables each function creates, in the order of its create_table calls
StagingTables == << <<"stg_prices_raw", prices_schema>>, <<"stg_sentiment_raw", sentiment_schema>> >>
DimensionalTables ==
    << <<"dim_coin", dim_coin_schema>>, <<"dim_timestamp", dim_timestamp_schema>>,
       <<"fact_price_snapshots", fact_price_schema>>, <<"fact_sentiment", fact_sentiment_schema>> >>

\* the dataset with every table as the two functions declare it
DeclaredTables ==
    [n \in { StagingTables[i][1] : i \in 1..2 } \cup { DimensionalTables[i][1] : i \in 1..4 } |->
        IF \E i \in 1..2 : StagingTables[i][1] = n
        THEN (CHOOSE t \in { StagingTables[i] : i \in 1..2 } : t[1] = n)[2]
        ELSE (CHOOSE t \in { DimensionalTables[i] : i \in 1..4 } : t[1] = n)[2]]

\* the function f without the names outside S
Restrict(f, S) == [n \in DOMAIN f \cap S |-> f[n]]

\* mutant: create_table without exists_ok: an existing table is a Conflict
CreateTable_NoExistsOk(w, name, schema) ==
    IF w.raised THEN w
    ELSE IF ~w.dataset THEN [w EXCEPT !.raised = TRUE]
    ELSE IF name \in DOMAIN w.tables THEN [w EXCEPT !.raised = TRUE]
    ELSE [w EXCEPT !.tables = [n \in DOMAIN w.tables \cup {name} |->
                                  IF n = name THEN schema ELSE w.tables[n]]]

\* client.create_table(table, exists_ok=True) on warehouse w, unless an
\* earlier request of the call has raised: NotFound without the dataset,
\* the existing table as it is when there is one, else a new empty table
CreateTable(w, name, schema) ==
    IF w.raised THEN w
    ELSE IF ~w.dataset THEN [w EXCEPT !.raised = TRUE]
    ELSE IF name \in DOMAIN w.tables THEN w
    ELSE [w EXCEPT !.tables = [n \in DOMAIN w.tables \cup {name} |->
                                  IF n = name THEN schema ELSE w.tables[n]]]

\* client.create_dataset(dataset, exists_ok=True)
CreateDataset(w) == IF w.raised THEN w ELSE [w EXCEPT !.dataset = TRUE]

\* the k-th request of the call fails in the service (k = 0: none does)
Request(w, k, fail, after) == IF w.raised THEN w ELSE IF k = fail THEN [w EXCEPT !.raised = TRUE] ELSE after

RECURSIVE CreateTables(_, _, _, _, _)
CreateTables(w, list, k, first, fail) ==
    IF k > Len(list) THEN w
    ELSE CreateTables(Request(w, first + k, fail, CreateTable(w, list[k][1], list[k][2])),
                      list, k + 1, first, fail)

Warehouse == [dataset |-> dataset, tables |-> tables, raised |-> FALSE]

\* one call of a create function has ended, by return or by an exception
SchemaCall(fn, w, fail) ==
    /\ dataset' = w.dataset
    /\ tables' = w.tables
    /\ ddl' = [fn |-> fn, raised |-> w.raised, fail |-> fail]
    /\ UNCHANGED <<storeVars, stgVars, loadVars, xfVars, factVars, ingestVars, orderVars, jobVars>>

\* create_staging_tables(): the dataset, then the two staging tables
create_staging_tables ==
    \E fail \in 0..3 :
        SchemaCall("create_staging_tables",
                   CreateTables(Request(Warehouse, 1, fail, CreateDataset(Warehouse)),
                                StagingTables, 1, 1, fail),
                   fail)

\* create_dimensional_tables(): the four tables of the star schema
create_dimensional_tables ==
    \E fail \in 0..4 :
        SchemaCall("create_dimensional_tables",
                   CreateTables(Warehouse, DimensionalTables, 1, 0, fail), fail)

\* the warehouse as the other specifications find it: everything created
InitSchema ==
    /\ dataset = TRUE
    /\ tables = DeclaredTables
    /\ ddl = [none |-> TRUE]

----------------------------------------------------------------------------
(* The timestamp dimension and the fact load of the transformer, after     *)
(* sections 3 and 4.2 of the design: the key of a timestamp is its civil   *)
(* date and time cut at the configured granularity; for each staging row   *)
(* the dimension keys are resolved (the timestamp row created if it is not *)
(* there) and one fact row is inserted under a fresh identifier.           *)

Granularities == {"second", "minute", "hour", "day"}

\* seconds in one bucket, and the leading fields of the civil time a key keeps
BucketSeconds(g) == CASE g = "second" -> 1 [] g = "minute" -> 60 [] g = "hour" -> 3600 [] g = "day" -> 86400
KeyFields(g) == CASE g = "second" -> 6 [] g = "minute" -> 5 [] g = "hour" -> 4 [] g = "day" -> 3

\* the first second of the bucket of epoch second t
BucketStart(g, t) == (t \div BucketSeconds(g)) * BucketSeconds(g)

RECURSIVE JoinFields(_, _)
JoinFields(fields, k) ==
    IF k = 0 THEN "ts"
    ELSE JoinFields(fields, k - 1) \o "-" \o ToString(fields[k])

\* mutant: the key leaves the month out
TimestampKey_NoMonth(g, t) ==
    JoinFields([IsoFormat(t) EXCEPT ![2] = 0], KeyFields(g))

\* the key of epoch second t: the format of its civil time down to the granularity
TimestampKey(g, t) == JoinFields(IsoFormat(t), KeyFields(g))

\* Monday is 0; 1970-01-01 was a Thursday
DayOfWeek(t) == ((t \div 86400) + 3) % 7

\* the calendar row of the bucket of epoch second t
TimestampRow(g, t) ==
    LET civil == IsoFormat(BucketStart(g, t)) IN
    [timestamp_key |-> TimestampKey(g, t),
     timestamp |-> civil,
     date |-> SubSeq(civil, 1, 3),
     hour |-> civil[4],
     day_of_week |-> DayOfWeek(t),
     month |-> civil[2],
     quarter |-> (civil[2] + 2) \div 3,
     year |-> civil[1],
     is_weekend |-> DayOfWeek(t) >= 5]

\* the table with the row of t, which is inserted only if its key is new
WithTimestamp(table, g, t) ==
    IF \E d \in table : d.timestamp_key = TimestampKey(g, t) THEN table
    ELSE table \cup {TimestampRow(g, t)}

\* epoch seconds on both sides of minute, hour, day, month and year ends,
\* and the same day and time of two months
Instants ==
    { 1700000000, 1700000001, 1700000040, 1700002800, 1700006400,
      1701388799, 1701388800, 1702592000, 1704067199, 1704067200 }

\* the epoch second of the fetch whose fetch_timestamp is Stamp(i)
FetchSeconds(i) == 1700000000 + 1800 * (i - 1)

\* the fetch_timestamp of a staging row, parsed
StampSeconds(stamp) == FetchSeconds(CHOOSE i \in 1..(MaxBlobs + 1) : Stamp(i) = stamp)

\* a third coin
Solana == [dict |-> [id |-> "solana", symbol |-> "sol", name |-> "Solana", current_price |-> "150"]]

\* the metrics a price fact carries
PriceMetrics ==
    { "current_price", "market_cap", "market_cap_rank", "total_volume", "high_24h", "low_24h",
      "price_change_24h", "price_change_percentage_24h", "market_cap_change_24h",
      "circulating_supply", "total_supply", "max_supply" }

\* mutant: every snapshot gets the same identifier
SnapshotId_Fixed(n) == "snapshot"

\* the n-th identifier generated
SnapshotId(n) == "snapshot" \o ToString(n)
SentimentId(n) == "sentiment" \o ToString(n)

\* the fact row of staging row r
FactPriceRow(r, id, coin_key, timestamp_key) ==
    [c \in PriceMetrics \cup {"snapshot_id", "coin_key", "timestamp_key", "data_source"} |->
        CASE c = "snapshot_id" -> id
          [] c = "coin_key" -> coin_key
          [] c = "timestamp_key" -> timestamp_key
          [] c = "data_source" -> r.source
          [] OTHER -> r[c]]

FactSentimentRow(r, id, timestamp_key) ==
    [sentiment_id |-> id, timestamp_key |-> timestamp_key, sentiment_value |-> r.value,
     sentiment_classification |-> r.value_classification, data_source |-> r.source]

\* the warehouse takes the row: declared columns only, REQUIRED ones not null
Accepts(schema, row) ==
    /\ DOMAIN row \subseteq { schema[i].name : i \in 1..Len(schema) }
    /\ \A i \in 1..Len(schema) :
        schema[i].mode = "REQUIRED" => (schema[i].name \in DOMAIN row /\ row[schema[i].name] # NULL)

\* the keys of a staging row can be resolved
PriceResolvable(r) ==
    /\ Resolvable(r)
    /\ r.fetch_timestamp # NULL
    /\ ActiveRows(dim_coin, NaturalKey(r)) # {}
SentimentResolvable(r) == r.fetch_timestamp # NULL

FactsIdle == [pc |-> "idle", run |-> 0, prices |-> EmptyBag, sentiment |-> EmptyBag,
              read_prices |-> EmptyBag, read_sentiment |-> EmptyBag,
              next_id |-> 1, stamped |-> {}]

\* the bag of the one row r
OneOf(r) == SetToBag({r})

\* the batch of a run: one staged row for each natural key the staging table holds
StagedBatches(table) ==
    { b \in SUBSET BagToSet(table) :
        /\ \A r \in BagToSet(table) : \E q \in b : NaturalKey(q) = NaturalKey(r)
        /\ \A r1, r2 \in b : NaturalKey(r1) = NaturalKey(r2) => r1 = r2 }

\* a transformer run follows a staging load, over the staging tables as
\* they are then
XfBeginStaged(t) ==
    /\ AllIdle
    /\ xff.pc = "idle"
    /\ xff.run = xf_runs
    /\ xf_runs < calls
    /\ pc \in {"idle", "done"}
    /\ \E batch \in StagedBatches(stg_prices_raw) : XfBegin(t, batch)

\* the coin dimension is up to date: the fact load of the run begins, over
\* the rows staged since the last run read the staging tables
XfFactsBegin ==
    /\ AllIdle
    /\ xff.pc = "idle"
    /\ xff.run < xf_runs
    /\ xff' = [xff EXCEPT !.pc = "facts", !.run = xf_runs,
                          !.prices = stg_prices_raw (-) xff.read_prices,
                          !.sentiment = stg_sentiment_raw (-) xff.read_sentiment,
                          !.read_prices = stg_prices_raw,
                          !.read_sentiment = stg_sentiment_raw]
    /\ UNCHANGED <<dim_timestamp, fact_price_snapshots, fact_sentiment, granularity>>
    /\ UNCHANGED <<storeVars, stgVars, loadVars, xfVars, schemaVars, ingestVars, orderVars, jobVars>>

\* mutant: a fact of the same coin and time is replaced
InsertPriceFact_Replaces(table, row) ==
    { f \in table : ~(f.coin_key = row.coin_key /\ f.timestamp_key = row.timestamp_key) } \cup {row}

\* the fact table with one more row
InsertPriceFact(table, row) == table \cup {row}

\* one staged price row, in some fixed order: skipped if a key cannot be
\* resolved, else its timestamp row is created if need be and its fact row
\* inserted
XfFactPrice ==
    /\ xff.pc = "facts"
    /\ xff.prices # EmptyBag
    /\ LET r == CHOOSE r \in BagToSet(xff.prices) : TRUE IN
        IF ~PriceResolvable(r)
        THEN /\ xff' = [xff EXCEPT !.prices = @ (-) OneOf(r)]
             /\ UNCHANGED <<dim_timestamp, fact_price_snapshots>>
        ELSE LET t == StampSeconds(r.fetch_timestamp)
                 coin == CHOOSE d \in ActiveRows(dim_coin, NaturalKey(r)) : TRUE
                 row == FactPriceRow(r, SnapshotId(xff.next_id), coin.coin_key, TimestampKey(granularity, t))
             IN /\ Accepts(fact_price_schema, row)
                /\ dim_timestamp' = WithTimestamp(dim_timestamp, granularity, t)
                /\ fact_price_snapshots' = InsertPriceFact(fact_price_snapshots, row)
                /\ xff' = [xff EXCEPT !.prices = @ (-) OneOf(r), !.next_id = @ + 1,
                                      !.stamped = @ \cup {t}]
    /\ UNCHANGED <<fact_sentiment, granularity>>
    /\ UNCHANGED <<storeVars, stgVars, loadVars, xfVars, schemaVars, ingestVars, orderVars, jobVars>>

\* one staged sentiment row, in the same way, once the price rows are done
XfFactSentiment ==
    /\ xff.pc = "facts"
    /\ xff.prices = EmptyBag
    /\ xff.sentiment # EmptyBag
    /\ LET r == CHOOSE r \in BagToSet(xff.sentiment) : TRUE IN
        IF ~SentimentResolvable(r)
        THEN /\ xff' = [xff EXCEPT !.sentiment = @ (-) OneOf(r)]
             /\ UNCHANGED <<dim_timestamp, fact_sentiment>>
        ELSE LET t == StampSeconds(r.fetch_timestamp)
                 row == FactSentimentRow(r, SentimentId(xff.next_id), TimestampKey(granularity, t))
             IN /\ Accepts(fact_sentiment_schema, row)
                /\ dim_timestamp' = WithTimestamp(dim_timestamp, granularity, t)
                /\ fact_sentiment' = fact_sentiment \cup {row}
                /\ xff' = [xff EXCEPT !.sentiment = @ (-) OneOf(r), !.next_id = @ + 1,
                                      !.stamped = @ \cup {t}]
    /\ UNCHANGED <<fact_price_snapshots, granularity>>
    /\ UNCHANGED <<storeVars, stgVars, loadVars, xfVars, schemaVars, ingestVars, orderVars, jobVars>>

\* every staged row has had its turn
XfFactsEnd ==
    /\ xff.pc = "facts"
    /\ xff.prices = EmptyBag
    /\ xff.sentiment = EmptyBag
    /\ xff' = [xff EXCEPT !.pc = "idle"]
    /\ UNCHANGED <<dim_timestamp, fact_price_snapshots, fact_sentiment, granularity>>
    /\ UNCHANGED <<storeVars, stgVars, loadVars, xfVars, schemaVars, ingestVars, orderVars, jobVars>>

\* the key of a timestamp is resolved, its row created if it is not there
XfTimestamp(t) ==
    /\ xff.pc = "idle"
    /\ dim_timestamp' = WithTimestamp(dim_timestamp, granularity, t)
    /\ xff' = [xff EXCEPT !.stamped = @ \cup {t}]
    /\ UNCHANGED <<fact_price_snapshots, fact_sentiment, granularity>>
    /\ UNCHANGED <<storeVars, stgVars, loadVars, xfVars, schemaVars, ingestVars, orderVars, jobVars>>

InitFacts ==
    /\ dim_timestamp = {}
    /\ fact_price_snapshots = {}
    /\ fact_sentiment = {}
    /\ xff = FactsIdle

----------------------------------------------------------------------------
(* The ingestion jobs: run_ingestion of fetch_prices.py and of             *)
(* fetch_sentiment.py, and run_all_ingestion that runs one after the other.*)
(* A path is the sequence of its components.                               *)

\* most run_all_ingestion processes in a behaviour
MaxIngestions == 2

\* the clock counts seconds and quarters of a second
Quarter == 250000
Advance(c, quarters) ==
    LET u == c.usec + quarters * Quarter
    IN [sec |-> c.sec + u \div 1000000, usec |-> u % 1000000]

\* strftime('%m') and the like: two digits
Pad2(n) == IF n < 10 THEN "0" \o ToString(n) ELSE ToString(n)

\* now.isoformat()
ClockStamp(c) ==
    LET f == IsoFormat(c.sec)
    IN ToString(f[1]) \o "-" \o Pad2(f[2]) \o "-" \o Pad2(f[3]) \o "T" \o Pad2(f[4]) \o ":"
       \o Pad2(f[5]) \o ":" \o Pad2(f[6])
       \o (IF c.usec = 0 THEN "" ELSE "." \o ToString(c.usec)) \o "+00:00"

\* save_to_local_json: output_dir/YYYY/MM/DD/HH/<job>_YYYYMMDD_HHMMSS.json
LocalPath(job, c) ==
    LET f == IsoFormat(c.sec)
    IN << "data", "raw", job, ToString(f[1]), Pad2(f[2]), Pad2(f[3]), Pad2(f[4]),
          job \o "_" \o ToString(f[1]) \o Pad2(f[2]) \o Pad2(f[3]) \o "_"
              \o Pad2(f[4]) \o Pad2(f[5]) \o Pad2(f[6]) \o ".json" >>

\* mutant: the object name keeps the data/ prefix of the local path
GcsPath_KeepsData(path) == path

\* upload_to_gcs: the object name is the local path without its data/ prefix
GcsPath(path) == IF path # <<>> /\ Head(path) = "data" THEN Tail(path) ELSE path

\* a coin as the API gives it, with its market_cap
WithMarketCap(leaf) ==
    [dict |-> [k \in DOMAIN leaf.dict \cup {"market_cap"} |->
                  IF k = "market_cap" THEN "1000000" ELSE leaf.dict[k]]]

\* what the fetch function of a job may give: an exception it does not
\* catch, None, or the parsed response
Fetches(job) ==
    IF job = "prices"
    THEN { [raise |-> TRUE], [none |-> TRUE], [list |-> <<>>], [list |-> <<NoIdCoin>>],
           [list |-> <<WithMarketCap(Bitcoin), WithMarketCap(Ethereum)>>],
           [list |-> <<WithMarketCap(Bitcoin), NoIdCoin>>] }
    ELSE { [raise |-> TRUE], [none |-> TRUE], [list |-> <<NoTimestamp>>],
           [list |-> <<Greed65>>], [list |-> <<Fear30, BadValue>>] }

required_fields(job) ==
    IF job = "prices" THEN {"id", "symbol", "name", "current_price", "market_cap"}
    ELSE {"value", "value_classification", "timestamp"}

\* validate_data(data): not empty, a list, and the first record, if a dict,
\* has the required fields
ValidateData(job, data) ==
    /\ "list" \in DOMAIN data
    /\ data.list # <<>>
    /\ "dict" \in DOMAIN data.list[1] => required_fields(job) \subseteq DOMAIN data.list[1].dict

\* the document save_to_local_json writes
SavedDoc(job, c, data) ==
    IF job = "prices" THEN PriceDoc(ClockStamp(c), data.list) ELSE SentimentDoc(ClockStamp(c), data.list)

\* a file whose writing broke off
Truncated == [truncated |-> TRUE]

\* the file system with content at path
WriteFile(files, path, content) ==
    [q \in DOMAIN files \cup {path} |-> IF q = path THEN content ELSE files[q]]

\* position of name in a sequence of names, 0 if it is not there
IndexOf(names, name) ==
    IF \E k \in 1..Len(names) : names[k] = name
    THEN CHOOSE k \in 1..Len(names) : names[k] = name
    ELSE 0

\* run_ingestion(upload_gcs=True) of a job, from the clock reading c of its
\* save: fetch, validate, save, upload.  save in {"ok", "raise", "broken"},
\* upload in {"ok", "raise"}
JobResult(job, data, save) ==
    IF "raise" \in DOMAIN data THEN "raised"
    ELSE IF ~ValidateData(job, data) THEN "False"
    ELSE IF save # "ok" THEN "False"
    ELSE "True"

Bucket(job) == IF job = "prices" THEN bucket_prices ELSE bucket_sentiment

\* blob.upload_from_filename: the object of that name is written or replaced
Upload(job, name, content) ==
    LET k == IndexOf(object_names[job], name)
        listed == IF k = 0 THEN Append(Bucket(job), content) ELSE [Bucket(job) EXCEPT ![k] = content]
    IN /\ object_names' = [object_names EXCEPT ![job] = IF k = 0 THEN Append(@, name) ELSE @]
       /\ times' = [times EXCEPT ![job] = IF k = 0 THEN Append(@, 0) ELSE @]
       /\ IF job = "prices"
          THEN bucket_prices' = listed /\ UNCHANGED bucket_sentiment
          ELSE bucket_sentiment' = listed /\ UNCHANGED bucket_prices

\* what one run_ingestion does to the files and the bucket
RunIngestion(job, data, save, upload, c) ==
    LET path == LocalPath(job, c)
        valid == "raise" \notin DOMAIN data /\ ValidateData(job, data)
    IN /\ local_files' =
            IF ~valid \/ save = "raise" THEN local_files
            ELSE IF save = "broken" THEN WriteFile(local_files, path, Truncated)
            ELSE WriteFile(local_files, path, SavedDoc(job, c, data))
       /\ IF valid /\ save = "ok" /\ upload = "ok"
          THEN Upload(job, GcsPath(path), SavedDoc(job, c, data))
          ELSE UNCHANGED <<object_names, times, storeVars>>

IngestIdle == [pc |-> "idle", results |-> [none |-> TRUE], returned |-> <<>>, exit_status |-> -1, runs |-> 0]

IngestFrame == <<stgVars, xfVars, factVars, schemaVars, orderVars, jobVars>>
LoadFrame == <<pc, caller, limit_files, frameVars, ret, calls, env, runVars, io, unreachable>>

\* python run_ingestion.py: run_all_ingestion begins
IngestStart ==
    /\ ing.pc \in {"idle", "exited"}
    /\ pc \in {"idle", "done"}
    /\ ing.runs < MaxIngestions
    /\ \E wait \in {0, 4} : clock' = Advance(clock, wait)
    /\ ing' = [pc |-> "prices", results |-> [prices |-> FALSE, sentiment |-> FALSE],
               returned |-> <<>>, exit_status |-> -1, runs |-> ing.runs + 1]
    /\ UNCHANGED <<local_files, object_names, times, storeVars, LoadFrame, IngestFrame>>

\* mutant: an exception of the job is not caught
IngestJob_NoTry(job, next) ==
    /\ ing.pc = job
    /\ \E data \in Fetches(job), save \in {"ok", "raise", "broken"}, upload \in {"ok", "raise"},
          took \in {1, 4} :
        LET result == JobResult(job, data, save) IN
        /\ clock' = Advance(clock, took)
        /\ RunIngestion(job, data, save, upload, clock')
        /\ ing' = IF result = "raised"
                  THEN [ing EXCEPT !.pc = "exited", !.exit_status = 1,
                                   !.returned = Append(@, <<job, result>>)]
                  ELSE [ing EXCEPT !.pc = next, !.results[job] = (result = "True"),
                                   !.returned = Append(@, <<job, result>>)]
    /\ UNCHANGED <<LoadFrame, IngestFrame>>

\* one job of run_all_ingestion: results[job] is what run_ingestion
\* returned, False if it raised
IngestJob(job, next) ==
    /\ ing.pc = job
    /\ \E data \in Fetches(job), save \in {"ok", "raise", "broken"}, upload \in {"ok", "raise"},
          took \in {1, 4} :
        LET result == JobResult(job, data, save) IN
        /\ clock' = Advance(clock, took)
        /\ RunIngestion(job, data, save, upload, clock')
        /\ ing' = [ing EXCEPT !.pc = next, !.results[job] = (result = "True"),
                              !.returned = Append(@, <<job, result>>)]
    /\ UNCHANGED <<LoadFrame, IngestFrame>>

IngestPrices == IngestJob("prices", "sentiment")
IngestSentiment == IngestJob("sentiment", "summary")

\* the summary, and __main__: exit 0 if both results are true, else 1
IngestExit ==
    /\ ing.pc = "summary"
    /\ ing' = [ing EXCEPT !.pc = "exited",
                          !.exit_status = IF ing.results.prices /\ ing.results.sentiment THEN 0 ELSE 1]
    /\ UNCHANGED <<clock, local_files, object_names, times, storeVars, LoadFrame, IngestFrame>>

----------------------------------------------------------------------------
(* run_ingestion of one source step by step, as python fetch_prices.py or  *)
(* python fetch_sentiment.py runs it: fetch, validate_data,                *)
(* save_to_local_json, upload_to_gcs.  script.steps lists the functions       *)
(* called so far, script.filepath is <<>> for None.                           *)

\* most runs of a script
MaxJobRuns == 2

JobIdle == [pc |-> "idle", source |-> "", data |-> [none |-> TRUE], filepath |-> <<>>,
            steps |-> <<>>, save |-> "", upload |-> "", result |-> "", exit_status |-> -1, runs |-> 0]

\* what the job leaves alone
JobFrame == <<stgVars, xfVars, factVars, schemaVars, orderVars, ing, LoadFrame>>

\* return v from run_ingestion, then exit(0 if success else 1)
JobReturns(j, v) == [j EXCEPT !.pc = "returned", !.result = v, !.exit_status = IF v = "True" THEN 0 ELSE 1]

\* python fetch_<source>.py
JobStart(source) ==
    /\ script.pc \in {"idle", "returned"}
    /\ ing.pc \in {"idle", "exited"}
    /\ script.runs < MaxJobRuns
    /\ script' = [JobIdle EXCEPT !.pc = "fetch", !.source = source, !.runs = script.runs + 1]
    /\ UNCHANGED <<ingestVars, times, storeVars, JobFrame>>

\* data = fetch_...(): the response, None, or an exception the function
\* does not catch, which ends the script with a traceback
JobFetch ==
    /\ script.pc = "fetch"
    /\ \E data \in Fetches(script.source) :
        script' = IF "raise" \in DOMAIN data
               THEN [JobReturns(script, "raised") EXCEPT !.data = data, !.steps = Append(@, "fetch")]
               ELSE [script EXCEPT !.pc = "validate", !.data = data, !.steps = Append(@, "fetch")]
    /\ UNCHANGED <<ingestVars, times, storeVars, JobFrame>>

\* if not validate_data(data): return False
JobValidate ==
    /\ script.pc = "validate"
    /\ script' = IF ValidateData(script.source, script.data)
              THEN [script EXCEPT !.pc = "save", !.steps = Append(@, "validate")]
              ELSE [JobReturns(script, "False") EXCEPT !.steps = Append(@, "validate")]
    /\ UNCHANGED <<ingestVars, times, storeVars, JobFrame>>

\* filepath = save_to_local_json(data); if not filepath: return False
JobSave ==
    /\ script.pc = "save"
    /\ \E save \in {"ok", "raise", "broken"}, took \in {1, 4} :
        LET path == LocalPath(script.source, clock') IN
        /\ clock' = Advance(clock, took)
        /\ local_files' = IF save = "raise" THEN local_files
                          ELSE IF save = "broken" THEN WriteFile(local_files, path, Truncated)
                          ELSE WriteFile(local_files, path, SavedDoc(script.source, clock', script.data))
        /\ script' = IF save = "ok"
                  THEN [script EXCEPT !.pc = "upload", !.filepath = path, !.save = save,
                                   !.steps = Append(@, "save")]
                  ELSE [JobReturns(script, "False") EXCEPT !.save = save, !.steps = Append(@, "save")]
    /\ UNCHANGED <<object_names, ing, times, storeVars>>
    /\ UNCHANGED <<stgVars, xfVars, factVars, schemaVars, orderVars, LoadFrame>>

\* mutant: a failed upload fails the job
JobUpload_FailsTheJob ==
    /\ script.pc = "upload"
    /\ \E upload \in {"ok", "raise", "unset"} :
        /\ IF upload = "ok"
           THEN Upload(script.source, GcsPath(script.filepath), local_files[script.filepath])
           ELSE UNCHANGED <<object_names, times, storeVars>>
        /\ script' = [JobReturns(script, IF upload = "ok" THEN "True" ELSE "False") EXCEPT
                      !.upload = upload, !.steps = Append(@, "upload")]
    /\ UNCHANGED <<clock, local_files, ing>>
    /\ UNCHANGED <<stgVars, xfVars, factVars, schemaVars, orderVars, LoadFrame>>

\* gcs_path = upload_to_gcs(filepath), which gives None when the bucket
\* name is unset or the upload raises; then return True either way
JobUpload ==
    /\ script.pc = "upload"
    /\ \E upload \in {"ok", "raise", "unset"} :
        /\ IF upload = "ok"
           THEN Upload(script.source, GcsPath(script.filepath), local_files[script.filepath])
           ELSE UNCHANGED <<object_names, times, storeVars>>
        /\ script' = [JobReturns(script, "True") EXCEPT !.upload = upload, !.steps = Append(@, "upload")]
    /\ UNCHANGED <<clock, local_files, ing>>
    /\ UNCHANGED <<stgVars, xfVars, factVars, schemaVars, orderVars, LoadFrame>>

InitJob == script = JobIdle

\* the start of the clock: two seconds before the hour
ClockStart == [sec |-> 1700002798, usec |-> 0]

\* the names of the objects a bucket holds at the start: those of fetches
\* at FetchSeconds(1), FetchSeconds(2), ...
InitIngest ==
    /\ clock = ClockStart
    /\ local_files = <<>>
    /\ object_names = [prices |-> [i \in 1..Len(bucket_prices) |->
                                      GcsPath(LocalPath("prices", [sec |-> FetchSeconds(i), usec |-> 0]))],
                       sentiment |-> [i \in 1..Len(bucket_sentiment) |->
                                      GcsPath(LocalPath("sentiment", [sec |-> FetchSeconds(i), usec |-> 0]))]]
    /\ ing = IngestIdle

\* no comparison of orders is under way
ReplayIdle == [phase |-> "none", fates |-> <<>>, perm |-> <<>>, count |-> 0, rows |-> EmptyBag]

InitReplay == replay = ReplayIdle

\* the variables the staging loader and the coin upsert leave alone, at rest
InitRest ==
    /\ InitFacts
    /\ granularity = "second"
    /\ InitSchema
    /\ InitIngest
    /\ InitReplay
    /\ InitJob

InitXf ==
    /\ dim_coin = {}
    /\ now = 0
    /\ xf = [t \in Transformers |-> Idle]
    /\ xf_runs = 0
    /\ versions = [k \in CoinKeys |-> <<>>]

----------------------------------------------------------------------------
(* Specifications of the staging loader *)

\* the staging tables empty and no load function called yet
InitLoader ==
    /\ stg_prices_raw = EmptyBag
    /\ stg_sentiment_raw = EmptyBag
    /\ pc = "idle"
    /\ caller = NONE
    /\ limit_files = 0
    /\ blobs = <<>>
    /\ idx = 0
    /\ records_loaded = 0
    /\ log = <<>>
    /\ stg_before = EmptyBag
    /\ ret = [none |-> TRUE]
    /\ calls = 0
    /\ env = [none |-> TRUE]
    /\ prices_count = 0
    /\ sentiment_count = 0
    /\ success = NONE
    /\ exit_status = -1
    /\ io = 0
    /\ unreachable = {}
    /\ times = [prices |-> [i \in 1..Len(bucket_prices) |-> 0],
                sentiment |-> [i \in 1..Len(bucket_sentiment) |-> 0]]

InitLoad ==
    /\ InitLoader
    /\ InitXf
    /\ InitRest

\* limit_files as direct callers give it: None or 0 (no limit), or 1
Limits == {0, 1}

\* direct calls of the two load functions, over any listing of one prefix
InitDirect ==
    /\ \/ bucket_prices \in Listings([i \in 1..MaxBlobs |-> PriceTexts(Stamp(i))]) /\ bucket_sentiment = <<>>
       \/ bucket_prices = <<>> /\ bucket_sentiment \in Listings([i \in 1..MaxBlobs |-> SentimentTexts(Stamp(i))])
    /\ InitLoad

NextDirect ==
    \/ \E limit \in Limits : CallLoadPrices(limit)
    \/ PricesList
    \/ PricesBlob
    \/ PricesReturn
    \/ \E limit \in Limits : CallLoadSentiment(limit)
    \/ SentimentList
    \/ SentimentBlob
    \/ SentimentReturn

SpecDirect == InitDirect /\ [][NextDirect]_vars

\* invocations of the script, over listings of both prefixes
RunPriceListings ==
    { <<>>,
      <<PriceDoc(Stamp(1), <<Bitcoin, Ethereum>>)>>,
      <<[notjson |-> TRUE], PriceDoc(Stamp(2), <<Bitcoin, Ethereum>>)>> }
RunSentimentListings ==
    { <<>>,
      <<SentimentDoc(Stamp(1), <<Greed65, Fear30>>)>>,
      <<SentimentDoc(Stamp(1), <<BadValue, Fear30>>), SentimentDoc(Stamp(2), <<Greed65>>)>> }

InitRun ==
    /\ bucket_prices \in RunPriceListings
    /\ bucket_sentiment \in RunSentimentListings
    /\ InitLoad

NextRun ==
    \/ RunStart
    \/ PricesList
    \/ PricesBlob
    \/ PricesReturn
    \/ SentimentList
    \/ SentimentBlob
    \/ SentimentReturn

SpecRun == InitRun /\ [][NextRun]_vars

----------------------------------------------------------------------------
(* Specifications of the transformer *)

InitTransform ==
    /\ bucket_prices = <<>>
    /\ bucket_sentiment = <<>>
    /\ InitLoad

\* transformer invocations one after the other
XfBeginSerial(t, batch) == AllIdle /\ XfBegin(t, batch)

NextTransform ==
    \/ \E t \in Transformers, batch \in Batches : XfBeginSerial(t, batch)
    \/ \E t \in Transformers : XfLookUp(t)
    \/ \E t \in Transformers : XfExpire(t)
    \/ \E t \in Transformers : XfInsert(t)
    \/ \E t \in Transformers : XfEnd(t)

SpecTransform == InitTransform /\ [][NextTransform]_vars

\* transformer invocations that run together
NextConcurrent ==
    \/ \E t \in Transformers, batch \in Batches : XfBegin(t, batch)
    \/ \E t \in Transformers : XfLookUp(t)
    \/ \E t \in Transformers : XfExpire(t)
    \/ \E t \in Transformers : XfInsert(t)
    \/ \E t \in Transformers : XfEnd(t)

SpecConcurrent == InitTransform /\ [][NextConcurrent]_vars

----------------------------------------------------------------------------
(* Specification of the pipeline: the staging load, then transformer runs  *)
(* over the staging tables, one stage at a time.                           *)

PipelinePriceListings ==
    { <<PriceDoc(Stamp(1), <<Bitcoin, Ethereum, Solana>>)>>,
      <<PriceDoc(Stamp(1), <<Bitcoin, NoIdCoin>>), PriceDoc(Stamp(2), <<BitcoinRenamed>>)>> }
PipelineSentimentListings ==
    { <<SentimentDoc(Stamp(1), <<Greed65>>)>>,
      <<[dict |-> [data |-> [list |-> <<Fear30>>]]]>> }

InitPipeline ==
    /\ bucket_prices \in PipelinePriceListings
    /\ bucket_sentiment \in PipelineSentimentListings
    /\ InitLoader
    /\ InitXf
    /\ InitFacts
    /\ granularity \in {"second", "hour"}
    /\ InitSchema
    /\ InitIngest
    /\ InitReplay
    /\ InitJob

\* the stages take turns: a staging load starts when every load before it
\* has been followed by a whole transformer run
RunStartStaged ==
    /\ AllIdle
    /\ xff.pc = "idle"
    /\ xff.run = xf_runs
    /\ calls <= xf_runs
    /\ RunStart

NextPipeline ==
    \/ RunStartStaged
    \/ PricesList
    \/ PricesBlob
    \/ PricesReturn
    \/ SentimentList
    \/ SentimentBlob
    \/ SentimentReturn
    \/ XfBeginStaged("t1")
    \/ XfLookUp("t1")
    \/ XfExpire("t1")
    \/ XfInsert("t1")
    \/ XfEnd("t1")
    \/ XfFactsBegin
    \/ XfFactPrice
    \/ XfFactSentiment
    \/ XfFactsEnd

SpecPipeline == InitPipeline /\ [][NextPipeline]_vars

----------------------------------------------------------------------------
(* Specification of the timestamp dimension alone: timestamps are resolved *)
(* one after the other under any of the granularities.                     *)

InitTimestamp ==
    /\ bucket_prices = <<>>
    /\ bucket_sentiment = <<>>
    /\ InitLoader
    /\ InitXf
    /\ InitFacts
    /\ granularity \in Granularities
    /\ InitSchema
    /\ InitIngest
    /\ InitReplay
    /\ InitJob

NextTimestamp == \E t \in Instants : XfTimestamp(t)

SpecTimestamp == InitTimestamp /\ [][NextTimestamp]_vars

----------------------------------------------------------------------------
(* Specification of the ingestion stage: invocations of run_ingestion.py,  *)
(* one after the other, on a bucket that holds one price blob of an        *)
(* earlier fetch.                                                          *)

InitIngestion ==
    /\ bucket_prices = <<PriceDoc(Stamp(1), <<Bitcoin, Ethereum>>)>>
    /\ bucket_sentiment = <<>>
    /\ InitLoad

NextIngestion ==
    \/ IngestStart
    \/ IngestPrices
    \/ IngestSentiment
    \/ IngestExit

SpecIngestion == InitIngestion /\ [][NextIngestion]_vars

----------------------------------------------------------------------------
(* Specification of runs of one ingestion script at a time, on a bucket    *)
(* that holds one price blob of an earlier fetch.                          *)

NextJob ==
    \/ \E source \in {"prices", "sentiment"} : JobStart(source)
    \/ JobFetch
    \/ JobValidate
    \/ JobSave
    \/ JobUpload

SpecJob == InitIngestion /\ [][NextJob]_vars

----------------------------------------------------------------------------
(* Specification of the creation of the warehouse structure, from any of   *)
(* its stages: no dataset, the dataset without tables, the staging tables  *)
(* only, every table, and every table with two of them created earlier     *)
(* under another schema.  The staging loader runs once its table exists.   *)

StagingNames == { StagingTables[i][1] : i \in 1..Len(StagingTables) }
DimensionalNames == { DimensionalTables[i][1] : i \in 1..Len(DimensionalTables) }

\* a schema a table was created with before the present declaration
LegacySchema == <<RequiredField("coin_id", "STRING")>>

SchemaStarts ==
    { Restrict(DeclaredTables, {}),
      Restrict(DeclaredTables, StagingNames),
      DeclaredTables,
      [DeclaredTables EXCEPT !["stg_prices_raw"] = LegacySchema, !["dim_coin"] = LegacySchema] }

InitStructure ==
    /\ bucket_prices = <<PriceDoc(Stamp(1), <<Bitcoin, Ethereum>>)>>
    /\ bucket_sentiment = <<>>
    /\ InitLoader
    /\ InitXf
    /\ InitFacts
    /\ granularity = "second"
    /\ tables \in SchemaStarts
    /\ dataset \in BOOLEAN
    /\ ~dataset => tables = Restrict(DeclaredTables, {})
    /\ ddl = [none |-> TRUE]
    /\ InitIngest
    /\ InitReplay
    /\ InitJob

\* load_prices_to_staging needs its table
TableExists(name) == dataset /\ name \in DOMAIN tables

NextStructure ==
    \/ create_staging_tables
    \/ create_dimensional_tables
    \/ TableExists("stg_prices_raw") /\ CallLoadPrices(0)
    \/ PricesList
    \/ PricesBlob
    \/ PricesReturn

SpecStructure == InitStructure /\ [][NextStructure]_vars

----------------------------------------------------------------------------
(* Specification of one listing loaded in two orders.  Each blob has a     *)
(* fate, what its download and its insert request do whenever the blob is  *)
(* processed; the listing is loaded once as it is and once permuted.       *)

OrderTexts(stamp) ==
    { [notjson |-> TRUE],
      PriceDoc(stamp, <<>>),
      PriceDoc(stamp, <<Bitcoin, Ethereum>>),
      PriceDoc(stamp, <<Bitcoin, NotADict>>) }

\* what the services do for one blob
Fates == [download : {"ok", "raise"}, insert : {"ok", "errors", "raise"}]

\* the fate of the blob listed at position j
ReplayFate(j) ==
    IF replay.phase = "first" THEN replay.fates[j] ELSE replay.fates[replay.perm[j]]

InitOrder ==
    /\ bucket_prices \in Listings([i \in 1..MaxBlobs |-> OrderTexts(Stamp(i))])
    /\ bucket_sentiment = <<>>
    /\ InitLoader
    /\ InitXf
    /\ InitFacts
    /\ granularity = "second"
    /\ InitSchema
    /\ InitIngest
    /\ InitJob
    /\ \E f \in [1..Len(bucket_prices) -> Fates], p \in Permutations(1..Len(bucket_prices)) :
        replay = [phase |-> "first", fates |-> f, perm |-> p, count |-> 0, rows |-> EmptyBag]

\* load_prices_to_staging over the whole listing; the second call comes
\* after the listing was permuted
OrderCall ==
    /\ replay.phase = "first" => calls = 0
    /\ CallLoadPrices(0)

\* an iteration of the loop in which the services do what the fate of the
\* blob says
OrderBlob ==
    /\ PricesBlob
    /\ LET f == ReplayFate(idx + 1)
           o == BlobOutcome(PriceParse(blobs[idx + 1]), f.download, f.insert)
       IN log' = Append(log, [outcome |-> o.outcome, loaded |-> o.loaded])

\* the first call went over the whole listing and returned: what it
\* returned and appended is kept, and the bucket lists the same blobs in
\* the other order from now on
Reorder ==
    /\ replay.phase = "first"
    /\ pc = "idle"
    /\ "value" \in DOMAIN ret
    /\ blobs = bucket_prices
    /\ idx = Len(blobs)
    /\ replay' = [replay EXCEPT !.phase = "second",
                                !.count = ret.value,
                                !.rows = stg_prices_raw (-) stg_before]
    /\ bucket_prices' = [j \in 1..Len(bucket_prices) |-> bucket_prices[replay.perm[j]]]
    /\ UNCHANGED <<bucket_sentiment, stgVars, loadVars, xfVars, factVars, schemaVars, ingestVars, jobVars>>

NextOrder ==
    \/ OrderCall
    \/ PricesList
    \/ OrderBlob
    \/ PricesReturn
    \/ Reorder

SpecOrder == InitOrder /\ [][NextOrder]_vars

----------------------------------------------------------------------------
(* Specification of invocations of the script that may be killed *)

NextKill ==
    \/ RunStart
    \/ PricesList
    \/ PricesBlob
    \/ PricesReturn
    \/ SentimentList
    \/ SentimentBlob
    \/ SentimentReturn
    \/ KillLoader

SpecKill == InitRun /\ [][NextKill]_vars

----------------------------------------------------------------------------
(* Properties of the staging loader *)

\* the leaves of a blob whose text is an object with a data list
Leaves(text) == text.dict["data"].list

\* the text parses as JSON with a top-level data list
HasLeaves(text) == "dict" \in DOMAIN text /\ HasDataList(text.dict)

\* a price leaf with the fields of a coin: an object that has an id
WellFormedCoin(leaf) == "dict" \in DOMAIN leaf /\ "id" \in DOMAIN leaf.dict

WellFormedPriceBlob(text) ==
    HasLeaves(text) /\ \A k \in 1..Len(Leaves(text)) : WellFormedCoin(Leaves(text)[k])

\* the download worked and the insert, if any, reported no error and did not raise
ServicesWorked(entry) == entry.outcome \notin {"download_raised", "insert_errors", "insert_raised"}

\* the blob failed: an exception was caught or the insert reported errors
Failed(entry) ==
    entry.outcome \in {"download_raised", "parse_raised", "record_raised", "insert_errors", "insert_raised"}

\* number of rows of a table that carry this fetch_timestamp
RowsWithStamp(table, stamp) ==
    LET S == { r \in BagToSet(table) : r.fetch_timestamp = stamp }
    IN BagCardinality([r \in S |-> table[r]])

\* C1: a price blob that parses as JSON with a data list of N well-formed
\* leaf records, downloaded and inserted without error, adds exactly N rows
\* to stg_prices_raw, one per leaf, and N to records_loaded.
C1_OneRowPerLeaf ==
    [][(pc = "prices_loop" /\ idx' = idx + 1 /\ WellFormedPriceBlob(blobs[idx + 1])
            /\ ServicesWorked(log'[idx']))
        => LET text == blobs[idx + 1]
               N == Len(Leaves(text))
               added == stg_prices_raw' (-) stg_prices_raw
           IN /\ BagCardinality(stg_prices_raw') = BagCardinality(stg_prices_raw) + N
              /\ BagCardinality(added) = N
              /\ records_loaded' = records_loaded + N
              /\ \A k \in 1..N :
                    \E r \in BagToSet(added) :
                        /\ r.coin_id = Leaves(text)[k].dict.id
                        /\ r.symbol = Get(Leaves(text)[k].dict, "symbol")
                        /\ r.name = Get(Leaves(text)[k].dict, "name")
                        /\ r.current_price = Get(Leaves(text)[k].dict, "current_price")
                        /\ r.fetch_timestamp = Get(text.dict, "fetch_timestamp")]_vars

\* a blob of two well-formed coins has just been loaded
C1_Witness ==
    /\ pc = "prices_loop"
    /\ idx > 0
    /\ WellFormedPriceBlob(blobs[idx])
    /\ Len(Leaves(blobs[idx])) = 2
    /\ log[idx] = [outcome |-> "loaded", loaded |-> 2]
    /\ BagCardinality(stg_prices_raw) >= 2

\* the rows of the first n blobs of the call that did not fail
RECURSIVE RowsOfUnfailed(_, _)
RowsOfUnfailed(fn, n) ==
    IF n = 0 THEN EmptyBag
    ELSE RowsOfUnfailed(fn, n - 1)
         (+) (IF Failed(log[n]) THEN EmptyBag
              ELSE SeqToBag(IF fn = "prices" THEN PriceParse(blobs[n]).rows
                            ELSE SentimentParse(blobs[n]).rows))

TableOf(fn) == IF fn = "prices" THEN stg_prices_raw ELSE stg_sentiment_raw

\* C2: in both load functions a blob that fails to download, parse or insert
\* does not stop the loop: every blob of the listing gets its turn, the rows
\* of every blob that did not fail are in the table, and the call returns
\* the number of rows inserted instead of raising.
C2_FailedBlobDoesNotStopTheRest ==
    /\ pc \in {"prices_loop", "sentiment_loop"} =>
        LET fn == IF pc = "prices_loop" THEN "prices" ELSE "sentiment" IN
        /\ Len(log) = idx
        /\ idx <= Len(blobs)
        /\ TableOf(fn) = stg_before (+) RowsOfUnfailed(fn, idx)
        /\ records_loaded = BagCardinality(RowsOfUnfailed(fn, idx))
    /\ (pc = "idle" /\ blobs # <<>>) =>
        /\ Len(log) = Len(blobs)
        /\ ret = Returned(ret.fn, BagCardinality(RowsOfUnfailed(ret.fn, Len(blobs))))
        /\ TableOf(ret.fn) = stg_before (+) RowsOfUnfailed(ret.fn, Len(blobs))

\* a call has returned 2 after its first blob failed and its second was loaded
C2_Witness ==
    /\ pc = "idle"
    /\ Len(blobs) = 2
    /\ Len(log) = 2
    /\ Failed(log[1])
    /\ log[2].outcome = "loaded"
    /\ ret = Returned("sentiment", 2)
    /\ BagCardinality(stg_sentiment_raw) = BagCardinality(stg_before) + 2

\* number of leaves of a blob, 0 when it has no data list
NumLeaves(text) == IF HasLeaves(text) THEN Len(Leaves(text)) ELSE 0

\* the fetch_timestamp the rows of a blob carry
StampOf(text) == IF "dict" \in DOMAIN text THEN Get(text.dict, "fetch_timestamp") ELSE NULL

\* rows that t[i] successful loads of each blob i with this stamp leave behind
RECURSIVE RowsDue(_, _, _, _)
RowsDue(listing, t, stamp, n) ==
    IF n = 0 THEN 0
    ELSE RowsDue(listing, t, stamp, n - 1)
         + (IF StampOf(listing[n]) = stamp THEN t[n] * NumLeaves(listing[n]) ELSE 0)

StampsOf(listing) == { StampOf(listing[i]) : i \in 1..Len(listing) }

\* C3: the loader is not idempotent: every successful load of a blob with N
\* leaf records appends N rows again, so after k successful loads of it the
\* staging table holds k * N rows from it.
C3_ReloadAppendsAgain ==
    /\ \A st \in StampsOf(bucket_prices) :
        RowsWithStamp(stg_prices_raw, st) = RowsDue(bucket_prices, times.prices, st, Len(bucket_prices))
    /\ \A st \in StampsOf(bucket_sentiment) :
        RowsWithStamp(stg_sentiment_raw, st) = RowsDue(bucket_sentiment, times.sentiment, st, Len(bucket_sentiment))

\* a blob of two coins was loaded twice and the table holds its four rows
C3_Witness ==
    \E i \in 1..Len(bucket_prices) :
        /\ times.prices[i] = 2
        /\ NumLeaves(bucket_prices[i]) = 2
        /\ StampOf(bucket_prices[i]) = Stamp(i)
        /\ RowsWithStamp(stg_prices_raw, Stamp(i)) = 4

\* number of the leaves of a blob that are coins with an id
NumWellFormed(text) == Cardinality({ k \in 1..Len(Leaves(text)) : WellFormedCoin(Leaves(text)[k]) })

\* C7: a price leaf record with no id is skipped: it gives no staging row,
\* the other records of its blob are inserted, and the blob counts for the
\* valid records only.
C7_RecordWithoutIdIsSkipped ==
    pc = "prices_loop" =>
        /\ \A r \in BagToSet(stg_prices_raw) : r.coin_id # NULL
        /\ \A i \in 1..idx :
            (HasLeaves(blobs[i]) /\ log[i].outcome = "loaded")
                => log[i].loaded = NumWellFormed(blobs[i])

\* the reading converts: value to an integer, timestamp to epoch seconds
ConvertibleReading(leaf) ==
    /\ "dict" \in DOMAIN leaf
    /\ PyInt(GetJson(leaf.dict, "value")).ok
    /\ PyInt(GetJson(leaf.dict, "timestamp")).ok

\* C8: in the sentiment loader a record whose value or timestamp does not
\* convert fails alone: every other record of the blob is inserted.
C8_BadReadingFailsAlone ==
    pc = "sentiment_loop" =>
        \A i \in 1..idx :
            (HasLeaves(blobs[i]) /\ ServicesWorked(log[i])) =>
                \A k \in 1..Len(Leaves(blobs[i])) :
                    ConvertibleReading(Leaves(blobs[i])[k]) =>
                        BagIn(SentimentRow(blobs[i].dict, Leaves(blobs[i])[k].dict), stg_sentiment_raw)

\* a required variable is not set in the environment
Unset(e) == e.GCP_PROJECT_ID = NULL \/ e.GCS_BUCKET_NAME = NULL

\* C9: with GCP_PROJECT_ID or GCS_BUCKET_NAME missing the invocation ends at
\* once: run_load_to_staging returns False, the exit status is 1, no listing,
\* download or insert is requested and no staging table changes.
C9_MissingConfigurationIsFatal ==
    /\ [](caller = "run" /\ Unset(env) =>
            /\ pc = "done"
            /\ success = "False"
            /\ exit_status = 1
            /\ io = 0
            /\ blobs = <<>>
            /\ log = <<>>
            /\ stg_prices_raw = stg_before)
    /\ [][(caller' = "run" /\ calls' = calls + 1 /\ Unset(env'))
            => (pc' = "done" /\ UNCHANGED <<stgVars, storeVars>>)]_vars

\* an invocation without GCS_BUCKET_NAME has exited after an earlier one loaded rows
C9_Witness ==
    /\ caller = "run"
    /\ pc = "done"
    /\ env = [GCP_PROJECT_ID |-> "set", GCS_BUCKET_NAME |-> NULL]
    /\ exit_status = 1
    /\ calls = 2
    /\ BagCardinality(stg_prices_raw) > 0

\* C10: when the loader cannot list its inputs at all the run is reported as
\* failed: run_load_to_staging does not return True and the exit status is
\* not 0.
C10_UnreachableStoreFailsTheRun ==
    (pc = "done" /\ unreachable = {"prices", "sentiment"}) =>
        (success # "True" /\ exit_status # 0)

----------------------------------------------------------------------------
(* Properties of the coin dimension *)

\* the rows of a natural key
RowsOfKey(key) == { d \in dim_coin : NaturalKey(d) = key }

BitcoinKey == <<"bitcoin", "btc">>

\* C4: with transformer runs one after the other, a coin natural key never
\* has more than one dim_coin row with is_current = true, and between runs
\* every key that has been loaded has exactly one.
C4_OneCurrentRowPerCoin ==
    /\ \A k \in CoinKeys : Cardinality(ActiveRows(dim_coin, k)) <= 1
    /\ AllIdle => \A k \in CoinKeys :
            versions[k] # <<>> => Cardinality(ActiveRows(dim_coin, k)) = 1

\* two runs are over, bitcoin was loaded under two names and has one current row
C4_Witness ==
    /\ AllIdle
    /\ xf_runs >= 2
    /\ Len(versions[BitcoinKey]) = 2
    /\ Cardinality(RowsOfKey(BitcoinKey)) = 2
    /\ Cardinality(ActiveRows(dim_coin, BitcoinKey)) = 1

\* C5: with two transformer invocations alive together on the same coin
\* natural key, whatever the order of their look-up, expire and insert
\* steps, the key has at most one row with is_current = true.
C5_ConcurrentUpsertKeepsOneCurrent ==
    \A d1, d2 \in dim_coin :
        (NaturalKey(d1) = NaturalKey(d2) /\ d1.is_current /\ d2.is_current) => d1 = d2

\* both invocations are about to insert a row for the same key, and one of
\* them has lost the race: the key got an active row after it looked
C5_Witness ==
    /\ xf["t1"].pc = "insert"
    /\ xf["t2"].pc \in {"expire", "insert"}
    /\ NaturalKey(xf["t1"].cur) = NaturalKey(xf["t2"].cur)
    /\ ActiveRows(dim_coin, NaturalKey(xf["t1"].cur)) # {}

\* C6: between runs the rows of a coin natural key are its versions: one row
\* for each name it was loaded with in turn, each with its own surrogate key
\* and effective since the run that brought the name; all but the last are
\* expired (is_current = false, expiry_date the time of the next version),
\* the last is current with an open expiry date.  A run that brings the
\* name the current row has makes no version and so no row.
C6_ChangeCapture ==
    AllIdle =>
        /\ \A k \in CoinKeys :
            LET v == versions[k] IN
            /\ Cardinality(RowsOfKey(k)) = Len(v)
            /\ \A j \in 1..Len(v) :
                \E d \in RowsOfKey(k) :
                    /\ d.name = v[j].name
                    /\ d.effective_date = Instant(v[j].at)
                    /\ IF j < Len(v)
                       THEN ~d.is_current /\ d.expiry_date = Instant(v[j + 1].at)
                       ELSE d.is_current /\ d.expiry_date = NULL
        /\ \A d1, d2 \in dim_coin : d1.coin_key = d2.coin_key => d1 = d2

\* bitcoin came as "Bitcoin" in run 1 and as "Bitcoin Core" in run 2, and a
\* third run is over that changed nothing
C6_Witness ==
    /\ AllIdle
    /\ xf_runs = 3
    /\ versions[BitcoinKey] = <<[name |-> "Bitcoin", at |-> 1], [name |-> "Bitcoin Core", at |-> 2]>>
    /\ \E d \in RowsOfKey(BitcoinKey) : d.name = "Bitcoin" /\ ~d.is_current /\ d.expiry_date = Instant(2)
    /\ \E d \in RowsOfKey(BitcoinKey) : d.name = "Bitcoin Core" /\ d.is_current
    /\ Cardinality(RowsOfKey(BitcoinKey)) = 2

----------------------------------------------------------------------------
(* Properties of the pipeline *)

\* a step of the staging loader
LoaderStep == loadVars' # loadVars

\* C11: a step of load_prices_to_staging changes no table but
\* stg_prices_raw and a step of load_sentiment_to_staging none but
\* stg_sentiment_raw; no step of the loader changes a dimension table, a
\* fact table, an object of the raw store or a local file, and every row a
\* staging table holds before a step it holds after it, as often as before.
C11_LoaderWritesOnlyItsStagingTable ==
    [][LoaderStep =>
        /\ UNCHANGED <<dim_coin, dim_timestamp, fact_price_snapshots, fact_sentiment>>
        /\ UNCHANGED <<bucket_prices, bucket_sentiment, object_names, local_files>>
        /\ stg_prices_raw \sqsubseteq stg_prices_raw'
        /\ stg_sentiment_raw \sqsubseteq stg_sentiment_raw'
        /\ pc \in {"prices_list", "prices_loop"} => stg_sentiment_raw' = stg_sentiment_raw
        /\ pc \in {"sentiment_list", "sentiment_loop"} => stg_prices_raw' = stg_prices_raw]_vars

\* a second load has doubled the rows of both staging tables while the
\* dimension and fact tables hold the rows of the first transformer run
C11_Witness ==
    /\ pc = "done"
    /\ calls = 2
    /\ success = "True"
    /\ BagCardinality(stg_prices_raw) = 6
    /\ BagCardinality(stg_sentiment_raw) = 2
    /\ \A r \in BagToSet(stg_prices_raw) : CopiesIn(r, stg_prices_raw) = 2
    /\ Cardinality(dim_coin) = 3
    /\ Cardinality(fact_price_snapshots) = 3
    /\ Cardinality(fact_sentiment) = 1
    /\ dim_timestamp # {}

\* C12: across transformer runs every row of fact_price_snapshots and of
\* fact_sentiment stays in its table with every stored value as it was:
\* a step only adds rows.
C12_FactTablesAppendOnly ==
    [][/\ fact_price_snapshots \subseteq fact_price_snapshots'
       /\ fact_sentiment \subseteq fact_sentiment']_vars

\* a second run has added a second fact for a coin and time that had one,
\* and the first is still there
C12_Witness ==
    /\ xff.run = 2
    /\ xff.pc = "idle"
    /\ \E f1, f2 \in fact_price_snapshots :
        /\ f1.snapshot_id = SnapshotId(1)
        /\ f1 # f2
        /\ f1.coin_key = f2.coin_key
        /\ f1.timestamp_key = f2.timestamp_key
    /\ Cardinality(fact_sentiment) = 2

\* the staging row the fact load has just taken from its batch
TakenRows == (xff.prices (-) xff'.prices) (+) (xff.sentiment (-) xff'.sentiment)

\* the dimension keys of staging row r are there to be referenced
HasKeys(r) ==
    /\ r.fetch_timestamp # NULL
    /\ "coin_id" \in DOMAIN r =>
        /\ r.coin_id # NULL
        /\ \E d \in dim_coin : d.coin_id = r.coin_id /\ d.symbol = r.symbol /\ d.is_current

\* the rows a step adds to the two fact tables
NewPriceFacts == fact_price_snapshots' \ fact_price_snapshots
NewSentimentFacts == fact_sentiment' \ fact_sentiment

\* the identifiers the fact tables hold
FactIds == { f.snapshot_id : f \in fact_price_snapshots } \cup { f.sentiment_id : f \in fact_sentiment }

\* C14: the fact load takes the staging rows one at a time and inserts
\* exactly one fact row for each row whose keys resolve (none for a row it
\* skips), under an identifier no fact has yet, referencing a dim_coin and
\* a dim_timestamp row that exist; no two facts ever share an identifier
\* and every fact references existing dimension rows.
C14_OneFactPerStagingRow ==
    /\ [][(xff.pc = "facts" /\ xff'.pc = "facts" /\ xff' # xff) =>
            /\ BagCardinality(TakenRows) = 1
            /\ \A r \in BagToSet(TakenRows) :
                IF ~HasKeys(r) THEN NewPriceFacts = {} /\ NewSentimentFacts = {}
                ELSE IF "coin_id" \in DOMAIN r
                THEN /\ NewSentimentFacts = {}
                     /\ Cardinality(NewPriceFacts) = 1
                     /\ \A f \in NewPriceFacts :
                            /\ f.snapshot_id \notin FactIds
                            /\ f.current_price = r.current_price
                            /\ \E d \in dim_coin : d.coin_key = f.coin_key /\ d.coin_id = r.coin_id
                            /\ \E d \in dim_timestamp' : d.timestamp_key = f.timestamp_key
                ELSE /\ NewPriceFacts = {}
                     /\ Cardinality(NewSentimentFacts) = 1
                     /\ \A f \in NewSentimentFacts :
                            /\ f.sentiment_id \notin FactIds
                            /\ f.sentiment_value = r.value
                            /\ \E d \in dim_timestamp' : d.timestamp_key = f.timestamp_key]_vars
    /\ [](/\ \A f1, f2 \in fact_price_snapshots : f1.snapshot_id = f2.snapshot_id => f1 = f2
          /\ \A f1, f2 \in fact_sentiment : f1.sentiment_id = f2.sentiment_id => f1 = f2
          /\ \A f \in fact_price_snapshots :
                /\ \E d \in dim_coin : d.coin_key = f.coin_key
                /\ \E d \in dim_timestamp : d.timestamp_key = f.timestamp_key
          /\ \A f \in fact_sentiment : \E d \in dim_timestamp : d.timestamp_key = f.timestamp_key)

\* one price blob of three coins and one sentiment blob of one reading
\* have gone through the loader and one transformer run
C14_Witness ==
    /\ bucket_prices = <<PriceDoc(Stamp(1), <<Bitcoin, Ethereum, Solana>>)>>
    /\ bucket_sentiment = <<SentimentDoc(Stamp(1), <<Greed65>>)>>
    /\ BagCardinality(stg_prices_raw) = 3
    /\ BagCardinality(stg_sentiment_raw) = 1
    /\ xff.run = 1
    /\ xff.pc = "idle"
    /\ Cardinality(dim_coin) = 3
    /\ Cardinality(dim_timestamp) = 1
    /\ Cardinality(fact_price_snapshots) = 3
    /\ Cardinality(fact_sentiment) = 1

----------------------------------------------------------------------------
(* Properties of the timestamp dimension *)

\* the bucket of epoch second t: how many whole buckets lie before it
BucketOf(g, t) == t \div BucketSeconds(g)

\* C13: the key of the timestamp dimension is a function of the timestamp
\* alone: two timestamps have the same key exactly when they fall in the
\* same bucket of the configured granularity, and however often timestamps
\* are inserted, dim_timestamp holds one row for each bucket met, under the
\* key of that bucket, and never a second key for a timestamp.
C13_TimestampKeyIsAFunctionOfTheBucket ==
    /\ \A t1, t2 \in Instants :
        (TimestampKey(granularity, t1) = TimestampKey(granularity, t2))
            <=> (BucketOf(granularity, t1) = BucketOf(granularity, t2))
    /\ \A d1, d2 \in dim_timestamp : d1.timestamp_key = d2.timestamp_key => d1 = d2
    /\ \A t \in xff.stamped :
        Cardinality({ d \in dim_timestamp : d.timestamp_key = TimestampKey(granularity, t) }) = 1
    /\ Cardinality(dim_timestamp) = Cardinality({ BucketOf(granularity, t) : t \in xff.stamped })

\* under the hour granularity three timestamps of two hours, one of them
\* resolved after its row was there, have left two rows
C13_Witness ==
    /\ granularity = "hour"
    /\ xff.stamped = {1700000000, 1700000040, 1700002800}
    /\ Cardinality(dim_timestamp) = 2

----------------------------------------------------------------------------
(* Properties of a killed staging load *)

\* the process was killed and no later invocation has begun
WasKilled == pc = "done" /\ "killed" \in DOMAIN ret

\* the complete row set of blob i of the running or killed call
RowSetOf(fn, i) ==
    SeqToBag(IF fn = "prices" THEN PriceParse(blobs[i]).rows ELSE SentimentParse(blobs[i]).rows)

\* C15: no step, a kill included, removes or changes a staging row; a kill
\* leaves the table of the running load function as it was at the call plus
\* the complete row sets of blobs of the listing taken in order (those
\* already done that did not fail and at most the whole of the one in
\* hand), never a part of one; the next invocation can start from there,
\* and its loop adds to what it finds exactly the rows of its own blobs.
C15_KilledLoadLeavesWholeBlobs ==
    /\ [][stg_prices_raw \sqsubseteq stg_prices_raw' /\ stg_sentiment_raw \sqsubseteq stg_sentiment_raw']_vars
    /\ [](WasKilled =>
            LET done == stg_before (+) RowsOfUnfailed(ret.fn, idx) IN
            /\ \/ TableOf(ret.fn) = done
               \/ idx < Len(blobs) /\ TableOf(ret.fn) = done (+) RowSetOf(ret.fn, idx + 1)
            /\ calls < MaxCalls => ENABLED RunStart)
    /\ [](pc \in {"prices_loop", "sentiment_loop"} =>
            TableOf(Running) = stg_before (+) RowsOfUnfailed(Running, idx))

\* an invocation was killed after the insert of its first price blob had
\* reached the warehouse, and the next one has run to its end on top of it
C15_Witness ==
    /\ calls = 2
    /\ pc = "done"
    /\ success = "True"
    /\ exit_status = 0
    /\ Len(bucket_prices) = 1
    /\ prices_count = 2
    /\ BagCardinality(stg_prices_raw) = 4
    /\ times.prices[1] = 2
    /\ BagCardinality(stg_sentiment_raw) = 2

----------------------------------------------------------------------------
(* Properties of the sentiment loader *)

\* the records of a sentiment blob that parses to an object with a data list
RecordsOf(text) ==
    IF "dict" \in DOMAIN text /\ HasDataList(text.dict) THEN text.dict["data"].list ELSE <<>>

\* the value or the timestamp of the record is not the text of an integer
Unconvertible(leaf) ==
    /\ "dict" \in DOMAIN leaf
    /\ \/ ~PyInt(GetJson(leaf.dict, "value")).ok
       \/ ~PyInt(GetJson(leaf.dict, "timestamp")).ok

HasUnconvertible(text) == \E k \in 1..Len(RecordsOf(text)) : Unconvertible(RecordsOf(text)[k])

\* C20: an iteration of the sentiment loop over a blob with a record whose
\* value or timestamp does not convert to an integer inserts no row of the
\* blob and adds nothing to records_loaded, and the loop goes on to the
\* next blob; an iteration that loads a blob, whatever came before it in
\* the listing, adds one row per record of that blob to the table and to
\* the count.
C20_SentimentBlobIsAllOrNothing ==
    [][pc = "sentiment_loop" /\ idx' = idx + 1 =>
        /\ HasUnconvertible(blobs[idx + 1]) =>
            /\ stg_sentiment_raw' = stg_sentiment_raw
            /\ records_loaded' = records_loaded
            /\ pc' = "sentiment_loop"
            /\ blobs' = blobs
        /\ log'[idx + 1].outcome = "loaded" =>
            /\ ~HasUnconvertible(blobs[idx + 1])
            /\ BagCardinality(stg_sentiment_raw') =
                 BagCardinality(stg_sentiment_raw) + Len(RecordsOf(blobs[idx + 1]))
            /\ records_loaded' = records_loaded + Len(RecordsOf(blobs[idx + 1]))]_vars

\* the first blob had a record that does not convert next to one that does
\* and left nothing; the second blob was loaded whole and the call returned
\* the count of the second blob alone
C20_Witness ==
    /\ pc = "idle"
    /\ "value" \in DOMAIN ret
    /\ ret.fn = "sentiment"
    /\ Len(blobs) = 2
    /\ HasUnconvertible(blobs[1])
    /\ \E k \in 1..Len(RecordsOf(blobs[1])) : ~Unconvertible(RecordsOf(blobs[1])[k])
    /\ log[1].outcome = "record_raised"
    /\ log[2].outcome = "loaded"
    /\ ret.value = Len(RecordsOf(blobs[2]))
    /\ stg_sentiment_raw = stg_before (+) RowSetOf("sentiment", 2)

----------------------------------------------------------------------------
(* Properties of the order of the blobs *)

\* a call over the whole permuted listing has returned
SecondReturned ==
    /\ replay.phase = "second"
    /\ calls >= 2
    /\ pc = "idle"
    /\ "value" \in DOMAIN ret
    /\ Len(blobs) = Len(bucket_prices)

\* C17: a call of load_prices_to_staging over the same blobs in another
\* order, each blob meeting the same download and insert behaviour as in
\* the first call, returns the count the first call returned and appends
\* the multiset of rows the first call appended.
C17_BlobOrderDoesNotMatter ==
    SecondReturned =>
        /\ ret.value = replay.count
        /\ stg_prices_raw (-) stg_before = replay.rows

\* two blobs, one that fails and one that is loaded, were processed in both
\* orders: the second call met the loaded one first
C17_Witness ==
    /\ SecondReturned
    /\ replay.perm = <<2, 1>>
    /\ Len(log) = 2
    /\ log[1].outcome = "loaded"
    /\ log[2].outcome \in {"parse_raised", "record_raised", "insert_raised", "download_raised"}
    /\ ret.value = 2
    /\ BagCardinality(stg_prices_raw) = 4

----------------------------------------------------------------------------
(* Properties of the creation of the warehouse structure *)

\* a step is a call of fn that no service failure cut short
CallOf(fn) ==
    /\ schemaVars' # schemaVars
    /\ "fn" \in DOMAIN ddl'
    /\ ddl'.fn = fn
    /\ ddl'.fail = 0

\* the rows of the six tables
AllRows == <<stg_prices_raw, stg_sentiment_raw, dim_coin, dim_timestamp, fact_price_snapshots, fact_sentiment>>

\* what a call leaves alone when all it would create exists
NothingChanged ==
    /\ ddl'.raised = FALSE
    /\ dataset' = dataset
    /\ tables' = tables
    /\ AllRows' = AllRows

\* C18: create_staging_tables called when the dataset and both staging
\* tables exist, and create_dimensional_tables called when the dataset and
\* its four tables exist, raise nothing and leave the dataset, the set of
\* tables, the schema of each table and the rows of each table as they
\* were; a call that returned leaves all it creates in existence, so that
\* a call after it is such a call.
C18_SchemaCreationIsIdempotent ==
    /\ [][/\ CallOf("create_staging_tables") /\ dataset /\ StagingNames \subseteq DOMAIN tables
             => NothingChanged
          /\ CallOf("create_dimensional_tables") /\ dataset /\ DimensionalNames \subseteq DOMAIN tables
             => NothingChanged]_vars
    /\ []("fn" \in DOMAIN ddl /\ ~ddl.raised =>
            /\ dataset
            /\ ddl.fn = "create_staging_tables" => StagingNames \subseteq DOMAIN tables
            /\ ddl.fn = "create_dimensional_tables" => DimensionalNames \subseteq DOMAIN tables)

\* both functions have been called on a warehouse that had every table, two
\* of them under an older schema, and rows in stg_prices_raw: the last call
\* returned, the older schemas and the rows are still there
C18_Witness ==
    /\ "fn" \in DOMAIN ddl
    /\ ddl.fn = "create_staging_tables"
    /\ ~ddl.raised
    /\ ddl.fail = 0
    /\ DOMAIN tables = StagingNames \cup DimensionalNames
    /\ tables["stg_prices_raw"] = LegacySchema
    /\ tables["dim_coin"] = LegacySchema
    /\ BagCardinality(stg_prices_raw) = 2

----------------------------------------------------------------------------
(* Properties of the ingestion stage *)

\* the jobs that have ended in this invocation, in order
JobsEnded == [k \in 1..Len(ing.returned) |-> ing.returned[k][1]]

\* job k of the invocation returned True
Succeeded(k) == ing.returned[k][2] = "True"

\* C19: in every invocation of run_ingestion.py the price job ends before
\* the sentiment job begins, and the sentiment job runs whether the price
\* job returned True, returned False or raised; results holds for each job
\* whether it returned True, and the exit status is 0 when both did and 1
\* otherwise.
C19_BothJobsRunAndExitTellsBoth ==
    /\ ing.pc = "prices" => JobsEnded = <<>>
    /\ ing.pc = "sentiment" => JobsEnded = <<"prices">>
    /\ ing.pc \in {"summary", "exited"} =>
        /\ JobsEnded = <<"prices", "sentiment">>
        /\ ing.results.prices = Succeeded(1)
        /\ ing.results.sentiment = Succeeded(2)
    /\ ing.pc = "exited" =>
        ing.exit_status = IF Succeeded(1) /\ Succeeded(2) THEN 0 ELSE 1

\* the price job raised, the sentiment job ran after it, returned True and
\* its blob is in the bucket; the process exited with status 1
C19_Witness ==
    /\ ing.pc = "exited"
    /\ ing.returned = << <<"prices", "raised">>, <<"sentiment", "True">> >>
    /\ ing.results = [prices |-> FALSE, sentiment |-> TRUE]
    /\ ing.exit_status = 1
    /\ Len(bucket_sentiment) = Len(object_names.sentiment)
    /\ bucket_sentiment # <<>>
    /\ "dict" \in DOMAIN bucket_sentiment[Len(bucket_sentiment)]
    /\ local_files # <<>>


\* the objects listed under the prefix of a job, by name
ObjectsOf(job) == [k \in 1..Len(object_names[job]) |-> <<object_names[job][k], Bucket(job)[k]>>]

\* C16: no step of an ingestion run changes a local file or an object of
\* the bucket that was written before: each one written stays, under its
\* path and with its content, and what a run writes goes to a new path.
C16_RawBlobsAreNeverOverwritten ==
    [][/\ \A q \in DOMAIN local_files :
            q \in DOMAIN local_files' /\ local_files'[q] = local_files[q]
       /\ \A job \in {"prices", "sentiment"} :
            \A k \in 1..Len(ObjectsOf(job)) :
                k <= Len(ObjectsOf(job)') /\ ObjectsOf(job)'[k] = ObjectsOf(job)[k]]_vars

----------------------------------------------------------------------------
(* Properties of a single ingestion job *)

StepsInOrder == <<"fetch", "validate", "save", "upload">>

\* the first n steps
FirstSteps(n) == SubSeq(StepsInOrder, 1, n)

\* the fetch gave None or the data did not pass validate_data
FetchOrValidationFailed ==
    "raise" \notin DOMAIN script.data /\ ~ValidateData(script.source, script.data)

\* C21: the functions of a run_ingestion are called in the order fetch,
\* validate, save, upload, each only after those before it went well. A
\* local file is written only by the save step, after fetch and validate;
\* the bucket is written only by an upload step that works, after the save.
\* A job whose fetch gave None or whose data is invalid ends after validate
\* with False; a job whose save failed ends after save with False; a job
\* whose save worked ends after upload with True, whether the upload
\* worked or not.
C21_StepsInOrderAndUploadFailureIsSuccess ==
    /\ [](\E n \in 0..4 : script.steps = FirstSteps(n))
    /\ [][local_files' # local_files =>
            /\ script.pc = "save"
            /\ script.steps = FirstSteps(2)
            /\ ~FetchOrValidationFailed]_vars
    /\ [][storeVars' # storeVars \/ object_names' # object_names =>
            /\ script.pc = "upload"
            /\ script.steps = FirstSteps(3)
            /\ script.save = "ok"
            /\ script'.upload = "ok"]_vars
    /\ [](script.pc = "returned" /\ script.result # "raised" =>
            /\ FetchOrValidationFailed =>
                script.steps = FirstSteps(2) /\ script.result = "False" /\ script.exit_status = 1
            /\ ~FetchOrValidationFailed /\ script.save # "ok" =>
                script.steps = FirstSteps(3) /\ script.result = "False" /\ script.exit_status = 1
            /\ ~FetchOrValidationFailed /\ script.save = "ok" =>
                script.steps = FirstSteps(4) /\ script.result = "True" /\ script.exit_status = 0)
    /\ [](script.pc = "returned" /\ script.result = "raised" =>
            script.steps = FirstSteps(1) /\ script.exit_status = 1)

\* the first run of the sentiment script saved its file, the upload raised,
\* and the job returned True with nothing new in the bucket
C21_Witness ==
    /\ script.pc = "returned"
    /\ script.runs = 1
    /\ script.source = "sentiment"
    /\ script.result = "True"
    /\ script.exit_status = 0
    /\ script.upload = "raise"
    /\ script.filepath \in DOMAIN local_files
    /\ bucket_sentiment = <<>>
    /\ Len(bucket_prices) = 1

----------------------------------------------------------------------------
(* Properties of the object keys *)

\* n in 0..99 as two digits
TwoDigits(n) == ToString(n \div 10) \o ToString(n % 10)

\* the key <source>: raw/<source>/YYYY/MM/DD/HH/<source>_YYYYMMDD_HHMMSS.json
\* of epoch second t in UTC, by its components
KeyOfSecond(source, t) ==
    LET f == IsoFormat(t)
        ymd == ToString(f[1]) \o TwoDigits(f[2]) \o TwoDigits(f[3])
        hms == TwoDigits(f[4]) \o TwoDigits(f[5]) \o TwoDigits(f[6])
    IN <<"raw", source, ToString(f[1]), TwoDigits(f[2]), TwoDigits(f[3]), TwoDigits(f[4]),
         source \o "_" \o ymd \o "_" \o hms \o ".json">>

Sources == {"prices", "sentiment"}

\* the objects of the bucket a listing with prefix raw/<source>/ selects
SelectedBy(source) ==
    { <<s, k>> \in Sources \X (1..MaxBlobs + MaxJobRuns) :
        /\ k <= Len(object_names[s])
        /\ SubSeq(object_names[s][k], 1, 2) = <<"raw", source>> }

\* the objects the ingestion of a source has uploaded
BlobsOf(source) == { <<source, k>> : k \in 1..Len(Bucket(source)) }

\* C22: an upload of the price job writes the object whose key is
\* raw/prices/YYYY/MM/DD/HH/prices_YYYYMMDD_HHMMSS.json for the UTC second
\* of the save, an upload of the sentiment job the like under
\* raw/sentiment/; at all times the objects whose key begins with
\* raw/prices/ are exactly the price blobs and those whose key begins with
\* raw/sentiment/ exactly the sentiment blobs.
C22_KeysFollowTheLayout ==
    /\ [][script.pc = "upload" /\ script'.upload = "ok" =>
            \E k \in 1..Len(object_names'[script.source]) :
                /\ object_names'[script.source][k] = KeyOfSecond(script.source, clock.sec)
                /\ Bucket(script.source)'[k] = local_files[script.filepath]
                /\ Bucket(script.source)'[k].dict.fetch_timestamp = ClockStamp(clock)]_vars
    /\ [](\A source \in Sources :
            /\ Len(object_names[source]) = Len(Bucket(source))
            /\ SelectedBy(source) = BlobsOf(source))

\* a price blob and a sentiment blob have been uploaded, each listed under
\* its own prefix
C22_Witness ==
    /\ script.pc = "returned"
    /\ script.upload = "ok"
    /\ script.source = "sentiment"
    /\ Len(bucket_prices) = 2
    /\ Len(bucket_sentiment) = 1
    /\ object_names.sentiment[1] = KeyOfSecond("sentiment", clock.sec)
    /\ IsoFormat(clock.sec)[4] = 23

----------------------------------------------------------------------------
(* Properties of the price facts *)

\* C23: with the timestamp dimension at its finest granularity, where two
\* observation times have the same key only if they are the same second,
\* no two rows of fact_price_snapshots have the same coin and the same
\* observation time.
C23_OneFactPerCoinAndTime ==
    granularity = "second" =>
        \A f, g \in fact_price_snapshots :
            f.coin_key = g.coin_key /\ f.timestamp_key = g.timestamp_key => f = g

----------------------------------------------------------------------------
(* Properties of the returned count *)

\* the load function whose loop is running
Looping == IF pc = "prices_loop" THEN "prices" ELSE "sentiment"

\* sum of the record counts of the first n blobs whose insert reported no
\* errors
RECURSIVE CountOfLoaded(_)
CountOfLoaded(n) ==
    IF n = 0 THEN 0
    ELSE CountOfLoaded(n - 1) + (IF log[n].outcome = "loaded" THEN NumLeaves(blobs[n]) ELSE 0)

\* C24: in both load functions every iteration adds to records_loaded the
\* number of rows it adds to the staging table, which is the record count
\* of the blob when its insert reported no errors and 0 when the insert
\* reported errors, the download, the parsing or the insert raised, or the
\* JSON has no top-level data list; the count a call returns is the number
\* of rows the table has gained since the call began, the sum of the record
\* counts of the blobs whose insert reported no errors.
C24_ReturnedCountIsRowsAdded ==
    /\ [][(idx' = idx + 1 /\ pc \in {"prices_loop", "sentiment_loop"}) =>
            LET added == BagCardinality(TableOf(Looping)') - BagCardinality(TableOf(Looping))
                e == log'[idx']
            IN /\ records_loaded' - records_loaded = added
               /\ added = (IF e.outcome = "loaded" THEN NumLeaves(blobs[idx + 1]) ELSE 0)
               /\ e.outcome # "loaded" => TableOf(Looping)' = TableOf(Looping)
               /\ HasLeaves(blobs[idx + 1]) \/ e.outcome # "loaded"]_vars
    /\ [](pc = "idle" /\ "value" \in DOMAIN ret =>
            /\ ret.value = BagCardinality(TableOf(ret.fn)) - BagCardinality(stg_before)
            /\ ret.value = CountOfLoaded(Len(log)))

\* a second call of load_prices_to_staging has returned the record count of
\* its second blob alone: the insert of its first blob reported errors
C24_Witness ==
    /\ pc = "idle"
    /\ calls = 2
    /\ "value" \in DOMAIN ret
    /\ ret.fn = "prices"
    /\ Len(log) = 2
    /\ log[1].outcome = "insert_errors"
    /\ log[2].outcome = "loaded"
    /\ ret.value = 2
    /\ stg_before # EmptyBag
    /\ BagCardinality(stg_prices_raw) = BagCardinality(stg_before) + 2

----------------------------------------------------------------------------
(* Properties of the listing limit *)

\* how many blobs of a listing of n a call with this limit processes
Processed(limit, n) == IF limit # 0 /\ limit < n THEN limit ELSE n

====
